---------------------------- MODULE Spec2Model ----------------------------
(* A model of the two-pass assembler: the tokenizer and the parser with    *)
(* its directives and macros, expression evaluation, the Context,          *)
(* instruction encoding, the Program with its traversals,                  *)
(* optimize_and_link and the hex emitter.                                  *)
EXTENDS Integers, Sequences, FiniteSets, TLC

(***************************************************************************)
(* Python's None for optional strings, and the absent constant expression. *)
(***************************************************************************)
None == "<None>"
NoExpr == [k |-> "none"]

SeqsUpTo(S, n) == UNION { [1..m -> S] : m \in 0..n }

(***************************************************************************)
(* Characters.  A source text is a sequence of one-character strings.      *)
(***************************************************************************)
LowerCase ==
  << "a", "b", "c", "d", "e", "f", "g", "h", "i", "j", "k", "l", "m",
     "n", "o", "p", "q", "r", "s", "t", "u", "v", "w", "x", "y", "z" >>
UpperCase ==
  << "A", "B", "C", "D", "E", "F", "G", "H", "I", "J", "K", "L", "M",
     "N", "O", "P", "Q", "R", "S", "T", "U", "V", "W", "X", "Y", "Z" >>
HexDigitChars ==
  << "0", "1", "2", "3", "4", "5", "6", "7", "8", "9",
     "a", "b", "c", "d", "e", "f" >>

Range(s) == { s[i] : i \in DOMAIN s }
Pos(s, c) == CHOOSE i \in DOMAIN s : s[i] = c

Letters == Range(LowerCase) \cup Range(UpperCase)
Digits == { HexDigitChars[i] : i \in 1..10 }
AlphaChars == Letters \cup {"_"}
WordChars == AlphaChars \cup Digits
OpChars == {"+", "-", "*", "/", "&", "|", "^", "~", "(", ")", "[", "]", ","}

lower_char(c) == IF c \in Range(UpperCase) THEN LowerCase[Pos(UpperCase, c)] ELSE c
upper_char(c) == IF c \in Range(LowerCase) THEN UpperCase[Pos(LowerCase, c)] ELSE c
lower(w) == [i \in DOMAIN w |-> lower_char(w[i])]
upper(w) == [i \in DOMAIN w |-> upper_char(w[i])]
HexDigits == Digits \cup { c \in Letters : lower_char(c) \in Range(HexDigitChars) }
DigitVal(c) == Pos(HexDigitChars, lower_char(c)) - 1

\* the Python string of a character sequence
RECURSIVE Str(_)
Str(w) == IF w = <<>> THEN "" ELSE Head(w) \o Str(Tail(w))

\* the index just past the longest run of characters of S that starts at p
RECURSIVE RunEnd(_, _, _)
RunEnd(code, p, S) ==
  IF p <= Len(code) /\ code[p] \in S THEN RunEnd(code, p + 1, S) ELSE p

\* the index of the first character of S at or after p, Len(code) + 1 if none
RECURSIVE RunUntil(_, _, _)
RunUntil(code, p, S) ==
  IF p <= Len(code) /\ code[p] \notin S THEN RunUntil(code, p + 1, S) ELSE p

\* str.strip() on a character sequence
RECURSIVE strip(_)
strip(w) ==
  IF w = <<>> THEN w
  ELSE IF Head(w) \in {" ", "\t", "\n", "\r"} THEN strip(Tail(w))
  ELSE IF w[Len(w)] \in {" ", "\t", "\n", "\r"} THEN strip(SubSeq(w, 1, Len(w) - 1))
  ELSE w

(***************************************************************************)
(* Source lines the parser specification assembles.                        *)
(***************************************************************************)
\* NOP
F_NOP == <<"N", "O", "P">>
\* a:
F_LABEL == <<"a", ":">>
\* L1: MOV R0,R1
F_L1 == <<"L", "1", ":", " ", "M", "O", "V", " ", "R", "0", ",", "R", "1">>
\* .const L1 1
F_CONST == <<".", "c", "o", "n", "s", "t", " ", "L", "1", " ", "1">>
\* .org 4
F_ORG == <<".", "o", "r", "g", " ", "4">>
\* _ADDR_: NOP
F_ADDR == <<"_", "A", "D", "D", "R", "_", ":", " ", "N", "O", "P">>
\* .reg cnt R3
F_REG == <<".", "r", "e", "g", " ", "c", "n", "t", " ", "R", "3">>

FrameLines ==
  { F_NOP, F_LABEL, F_L1, F_CONST, F_ORG, F_ADDR, F_REG }

\* ; c
F_COMMENT == <<";", " ", "c">>

\* lines that follow a statement: an instruction, a label definition, a comment
FollowLines == { F_NOP, F_LABEL, F_COMMENT }

\* lines of the RAM and data directives
\* .word a
D_WORD_a == <<".", "w", "o", "r", "d", " ", "a">>
\* .words b 10
D_WORDS_b == <<".", "w", "o", "r", "d", "s", " ", "b", " ", "1", "0">>
\* .word c
D_WORD_c == <<".", "w", "o", "r", "d", " ", "c">>
\* .long d
D_LONG_d == <<".", "l", "o", "n", "g", " ", "d">>
\* .words e 0
D_WORDS_e == <<".", "w", "o", "r", "d", "s", " ", "e", " ", "0">>
\* .dorg 0x8000
D_DORG == <<".", "d", "o", "r", "g", " ", "0", "x", "8", "0", "0", "0">>
\* .data text "AA",0
D_DATA_text ==
  << ".", "d", "a", "t", "a", " ", "t", "e", "x", "t", " ", "\"", "A", "A",
     "\"", ",", "0" >>
\* .data t1 "Test",0
D_DATA_t1 ==
  << ".", "d", "a", "t", "a", " ", "t", "1", " ", "\"", "T", "e", "s", "t",
     "\"", ",", "0" >>
\* .data t2 "Test",0
D_DATA_t2 ==
  << ".", "d", "a", "t", "a", " ", "t", "2", " ", "\"", "T", "e", "s", "t",
     "\"", ",", "0" >>
\* .data n -1,0x10000
D_DATA_n ==
  << ".", "d", "a", "t", "a", " ", "n", " ", "-", "1", ",", "0", "x", "1",
     "0", "0", "0", "0" >>
\* LDI R0,text
D_LDI_text == <<"L", "D", "I", " ", "R", "0", ",", "t", "e", "x", "t">>

RamLines ==
  { D_WORD_a, D_WORDS_b, D_WORD_c, D_LONG_d, D_WORDS_e, D_DORG,
    D_DATA_text, D_DATA_t1, D_DATA_t2, D_DATA_n, D_LDI_text }

\* MOV R0,R1
S_MOV == <<"M", "O", "V", " ", "R", "0", ",", "R", "1">>
\* INC R5
S_INC == <<"I", "N", "C", " ", "R", "5">>
\* dec r1
S_DEC == <<"d", "e", "c", " ", "r", "1">>
\* INC cnt
S_INC_ALIAS == <<"I", "N", "C", " ", "c", "n", "t">>
\* PUSH R1
S_PUSH == <<"P", "U", "S", "H", " ", "R", "1">>
\* POP R2
S_POP == <<"P", "O", "P", " ", "R", "2">>
\* CALL a
S_CALL == <<"C", "A", "L", "L", " ", "a">>
\* _SCALL 5
S_SCALL == <<"_", "S", "C", "A", "L", "L", " ", "5">>
\* RET 2
S_RET_N == <<"R", "E", "T", " ", "2">>
\* RET
S_RET == <<"R", "E", "T">>
\* ENTER 0
S_ENTER_0 == <<"E", "N", "T", "E", "R", " ", "0">>
\* ENTER 3
S_ENTER_3 == <<"E", "N", "T", "E", "R", " ", "3">>
\* ENTER (0)
S_ENTER_P0 == <<"E", "N", "T", "E", "R", " ", "(", "0", ")">>
\* ENTER 0+0
S_ENTER_SUM == <<"E", "N", "T", "E", "R", " ", "0", "+", "0">>
\* ENTER 0x0
S_ENTER_HEX == <<"E", "N", "T", "E", "R", " ", "0", "x", "0">>
\* LEAVE
S_LEAVE == <<"L", "E", "A", "V", "E">>
\* ENTERI
S_ENTERI == <<"E", "N", "T", "E", "R", "I">>
\* LEAVEI
S_LEAVEI == <<"L", "E", "A", "V", "E", "I">>
\* end: jmp end
S_JMP_END == <<"e", "n", "d", ":", " ", "j", "m", "p", " ", "e", "n", "d">>
\* l1: MOV R0,R1
S_l1 == <<"l", "1", ":", " ", "M", "O", "V", " ", "R", "0", ",", "R", "1">>
\* _addr_: NOP
S_addr == <<"_", "a", "d", "d", "r", "_", ":", " ", "N", "O", "P">>
\* .const l1 2
S_CONST_l1 == <<".", "c", "o", "n", "s", "t", " ", "l", "1", " ", "2">>
\* .const l1 1
S_CONST_same == <<".", "c", "o", "n", "s", "t", " ", "l", "1", " ", "1">>
\* LDI R1,l1
S_LDI_l1 == <<"L", "D", "I", " ", "R", "1", ",", "l", "1">>
\* LDD R1,[SP-2]
S_LDD == <<"L", "D", "D", " ", "R", "1", ",", "[", "S", "P", "-", "2", "]">>
\* STD [SP+1],R0
S_STD == <<"S", "T", "D", " ", "[", "S", "P", "+", "1", "]", ",", "R", "0">>
\* LDIs R0,1
S_SHORT == <<"L", "D", "I", "s", " ", "R", "0", ",", "1">>
\* NOP ; c 
S_COMMENT == <<"N", "O", "P", " ", ";", " ", "c", " ">>
\* .org 0
S_ORG_BACK == <<".", "o", "r", "g", " ", "0">>
\* MOV R0
S_BAD == <<"M", "O", "V", " ", "R", "0">>

Statements ==
  { S_MOV, S_INC, S_DEC, S_INC_ALIAS, S_PUSH, S_POP, S_CALL, S_SCALL,
    S_RET_N, S_RET, S_ENTER_0, S_ENTER_3, S_ENTER_P0, S_ENTER_SUM,
    S_ENTER_HEX, S_LEAVE, S_ENTERI, S_LEAVEI, S_JMP_END, S_l1, S_addr,
    S_CONST_l1, S_CONST_same, S_LDI_l1, S_LDD, S_STD, S_SHORT, S_COMMENT,
    S_ORG_BACK, S_BAD }

\* lines of the operators that are also mnemonics
\* LDI R0,1
O_LDI_1 == <<"L", "D", "I", " ", "R", "0", ",", "1">>
\* ADDI R1,2
O_ADDI == <<"A", "D", "D", "I", " ", "R", "1", ",", "2">>
\* and R1,R2
O_and == <<"a", "n", "d", " ", "R", "1", ",", "R", "2">>
\* AND R1,R2
O_AND == <<"A", "N", "D", " ", "R", "1", ",", "R", "2">>
\* And R1,R2
O_And == <<"A", "n", "d", " ", "R", "1", ",", "R", "2">>
\* or R1,R2
O_or == <<"o", "r", " ", "R", "1", ",", "R", "2">>
\* OR R1,R2
O_OR == <<"O", "R", " ", "R", "1", ",", "R", "2">>
\* Or R1,R2
O_Or == <<"O", "r", " ", "R", "1", ",", "R", "2">>

(***************************************************************************)
(* str.lower() on the words of the source lines and on the names the       *)
(* Context reserves.                                                       *)
(***************************************************************************)
LowerTab ==
  ("0" :> "0") @@ ("0x0" :> "0x0") @@ ("0x10000" :> "0x10000") @@
  ("0x8000" :> "0x8000") @@ ("1" :> "1") @@ ("10" :> "10") @@ ("2" :> "2") @@
  ("3" :> "3") @@ ("4" :> "4") @@ ("5" :> "5") @@ ("AA" :> "aa") @@
  ("ADDI" :> "addi") @@ ("AND" :> "and") @@ ("And" :> "and") @@
  ("CALL" :> "call") @@ ("ENTER" :> "enter") @@ ("ENTERI" :> "enteri") @@
  ("INC" :> "inc") @@ ("L1" :> "l1") @@ ("LDD" :> "ldd") @@
  ("LDI" :> "ldi") @@ ("LDIs" :> "ldis") @@ ("LEAVE" :> "leave") @@
  ("LEAVEI" :> "leavei") @@ ("MOV" :> "mov") @@ ("NOP" :> "nop") @@
  ("OR" :> "or") @@ ("Or" :> "or") @@ ("POP" :> "pop") @@
  ("PUSH" :> "push") @@ ("R0" :> "r0") @@ ("R1" :> "r1") @@ ("R2" :> "r2") @@
  ("R3" :> "r3") @@ ("R5" :> "r5") @@ ("RET" :> "ret") @@ ("SP" :> "sp") @@
  ("STD" :> "std") @@ ("Test" :> "test") @@ ("_ADDR_" :> "_addr_") @@
  ("_NEXT_ADDR_" :> "_next_addr_") @@ ("_SCALL" :> "_scall") @@
  ("_SKIP2_ADDR_" :> "_skip2_addr_") @@ ("_SKIP_ADDR_" :> "_skip_addr_") @@
  ("_addr_" :> "_addr_") @@ ("_next_addr_" :> "_next_addr_") @@
  ("_scall" :> "_scall") @@ ("_skip2_addr_" :> "_skip2_addr_") @@
  ("_skip_addr_" :> "_skip_addr_") @@ ("a" :> "a") @@ ("aa" :> "aa") @@
  ("addi" :> "addi") @@ ("and" :> "and") @@ ("b" :> "b") @@ ("c" :> "c") @@
  ("call" :> "call") @@ ("cnt" :> "cnt") @@ ("const" :> "const") @@
  ("d" :> "d") @@ ("data" :> "data") @@ ("dec" :> "dec") @@
  ("dorg" :> "dorg") @@ ("e" :> "e") @@ ("end" :> "end") @@
  ("enter" :> "enter") @@ ("enteri" :> "enteri") @@ ("inc" :> "inc") @@
  ("jmp" :> "jmp") @@ ("l1" :> "l1") @@ ("ldd" :> "ldd") @@
  ("ldi" :> "ldi") @@ ("ldis" :> "ldis") @@ ("leave" :> "leave") @@
  ("leavei" :> "leavei") @@ ("long" :> "long") @@ ("mov" :> "mov") @@
  ("n" :> "n") @@ ("nop" :> "nop") @@ ("or" :> "or") @@ ("org" :> "org") @@
  ("pop" :> "pop") @@ ("push" :> "push") @@ ("r0" :> "r0") @@
  ("r1" :> "r1") @@ ("r2" :> "r2") @@ ("r3" :> "r3") @@ ("r5" :> "r5") @@
  ("reg" :> "reg") @@ ("ret" :> "ret") @@ ("sp" :> "sp") @@
  ("std" :> "std") @@ ("t1" :> "t1") @@ ("t2" :> "t2") @@
  ("test" :> "test") @@ ("text" :> "text") @@ ("word" :> "word") @@
  ("words" :> "words")

Lower(s) == LowerTab[s]

(***************************************************************************)
(* Register: R0..R12, BP, SP, RA with value equal to the index.            *)
(***************************************************************************)
Register ==
  ("R0" :> 0) @@ ("R1" :> 1) @@ ("R2" :> 2) @@ ("R3" :> 3) @@ ("R4" :> 4) @@
  ("R5" :> 5) @@ ("R6" :> 6) @@ ("R7" :> 7) @@ ("R8" :> 8) @@ ("R9" :> 9) @@
  ("R10" :> 10) @@ ("R11" :> 11) @@ ("R12" :> 12) @@ ("BP" :> 13) @@
  ("SP" :> 14) @@ ("RA" :> 15)

RegName(r) == CHOOSE n \in DOMAIN Register : Register[n] = r

(***************************************************************************)
(* The opcode table: value, argument shape and the flags used by encoding  *)
(* and by the bus checks.                                                  *)
(***************************************************************************)
Opcode ==
  ("NOP" :> [value |-> 0, args |-> "NOTHING", alu_b_sel |-> "Source", imm_ext_mode |-> "extend", src_to_bus |-> FALSE, alu_to_bus |-> FALSE, rr |-> FALSE, wr |-> FALSE, rio |-> FALSE, wio |-> FALSE, store_pc |-> FALSE]) @@
  ("MOV" :> [value |-> 1, args |-> "DEST_SOURCE", alu_b_sel |-> "Source", imm_ext_mode |-> "extend", src_to_bus |-> TRUE, alu_to_bus |-> FALSE, rr |-> FALSE, wr |-> FALSE, rio |-> FALSE, wio |-> FALSE, store_pc |-> FALSE]) @@
  ("ADD" :> [value |-> 2, args |-> "DEST_SOURCE", alu_b_sel |-> "Source", imm_ext_mode |-> "extend", src_to_bus |-> FALSE, alu_to_bus |-> TRUE, rr |-> FALSE, wr |-> FALSE, rio |-> FALSE, wio |-> FALSE, store_pc |-> FALSE]) @@
  ("ADC" :> [value |-> 3, args |-> "DEST_SOURCE", alu_b_sel |-> "Source", imm_ext_mode |-> "extend", src_to_bus |-> FALSE, alu_to_bus |-> TRUE, rr |-> FALSE, wr |-> FALSE, rio |-> FALSE, wio |-> FALSE, store_pc |-> FALSE]) @@
  ("SUB" :> [value |-> 4, args |-> "DEST_SOURCE", alu_b_sel |-> "Source", imm_ext_mode |-> "extend", src_to_bus |-> FALSE, alu_to_bus |-> TRUE, rr |-> FALSE, wr |-> FALSE, rio |-> FALSE, wio |-> FALSE, store_pc |-> FALSE]) @@
  ("SBC" :> [value |-> 5, args |-> "DEST_SOURCE", alu_b_sel |-> "Source", imm_ext_mode |-> "extend", src_to_bus |-> FALSE, alu_to_bus |-> TRUE, rr |-> FALSE, wr |-> FALSE, rio |-> FALSE, wio |-> FALSE, store_pc |-> FALSE]) @@
  ("AND" :> [value |-> 6, args |-> "DEST_SOURCE", alu_b_sel |-> "Source", imm_ext_mode |-> "extend", src_to_bus |-> FALSE, alu_to_bus |-> TRUE, rr |-> FALSE, wr |-> FALSE, rio |-> FALSE, wio |-> FALSE, store_pc |-> FALSE]) @@
  ("OR" :> [value |-> 7, args |-> "DEST_SOURCE", alu_b_sel |-> "Source", imm_ext_mode |-> "extend", src_to_bus |-> FALSE, alu_to_bus |-> TRUE, rr |-> FALSE, wr |-> FALSE, rio |-> FALSE, wio |-> FALSE, store_pc |-> FALSE]) @@
  ("EOR" :> [value |-> 8, args |-> "DEST_SOURCE", alu_b_sel |-> "Source", imm_ext_mode |-> "extend", src_to_bus |-> FALSE, alu_to_bus |-> TRUE, rr |-> FALSE, wr |-> FALSE, rio |-> FALSE, wio |-> FALSE, store_pc |-> FALSE]) @@
  ("LDI" :> [value |-> 9, args |-> "DEST_CONST", alu_b_sel |-> "ImReg", imm_ext_mode |-> "src0", src_to_bus |-> FALSE, alu_to_bus |-> TRUE, rr |-> FALSE, wr |-> FALSE, rio |-> FALSE, wio |-> FALSE, store_pc |-> FALSE]) @@
  ("LDIs" :> [value |-> 10, args |-> "DEST_CONST", alu_b_sel |-> "instrSource", imm_ext_mode |-> "extend", src_to_bus |-> FALSE, alu_to_bus |-> TRUE, rr |-> FALSE, wr |-> FALSE, rio |-> FALSE, wio |-> FALSE, store_pc |-> FALSE]) @@
  ("ADDI" :> [value |-> 11, args |-> "DEST_CONST", alu_b_sel |-> "ImReg", imm_ext_mode |-> "src0", src_to_bus |-> FALSE, alu_to_bus |-> TRUE, rr |-> FALSE, wr |-> FALSE, rio |-> FALSE, wio |-> FALSE, store_pc |-> FALSE]) @@
  ("ADDIs" :> [value |-> 12, args |-> "DEST_CONST", alu_b_sel |-> "instrSource", imm_ext_mode |-> "extend", src_to_bus |-> FALSE, alu_to_bus |-> TRUE, rr |-> FALSE, wr |-> FALSE, rio |-> FALSE, wio |-> FALSE, store_pc |-> FALSE]) @@
  ("ADCI" :> [value |-> 13, args |-> "DEST_CONST", alu_b_sel |-> "ImReg", imm_ext_mode |-> "src0", src_to_bus |-> FALSE, alu_to_bus |-> TRUE, rr |-> FALSE, wr |-> FALSE, rio |-> FALSE, wio |-> FALSE, store_pc |-> FALSE]) @@
  ("ADCIs" :> [value |-> 14, args |-> "DEST_CONST", alu_b_sel |-> "instrSource", imm_ext_mode |-> "extend", src_to_bus |-> FALSE, alu_to_bus |-> TRUE, rr |-> FALSE, wr |-> FALSE, rio |-> FALSE, wio |-> FALSE, store_pc |-> FALSE]) @@
  ("SUBI" :> [value |-> 15, args |-> "DEST_CONST", alu_b_sel |-> "ImReg", imm_ext_mode |-> "src0", src_to_bus |-> FALSE, alu_to_bus |-> TRUE, rr |-> FALSE, wr |-> FALSE, rio |-> FALSE, wio |-> FALSE, store_pc |-> FALSE]) @@
  ("SUBIs" :> [value |-> 16, args |-> "DEST_CONST", alu_b_sel |-> "instrSource", imm_ext_mode |-> "extend", src_to_bus |-> FALSE, alu_to_bus |-> TRUE, rr |-> FALSE, wr |-> FALSE, rio |-> FALSE, wio |-> FALSE, store_pc |-> FALSE]) @@
  ("SBCI" :> [value |-> 17, args |-> "DEST_CONST", alu_b_sel |-> "ImReg", imm_ext_mode |-> "src0", src_to_bus |-> FALSE, alu_to_bus |-> TRUE, rr |-> FALSE, wr |-> FALSE, rio |-> FALSE, wio |-> FALSE, store_pc |-> FALSE]) @@
  ("SBCIs" :> [value |-> 18, args |-> "DEST_CONST", alu_b_sel |-> "instrSource", imm_ext_mode |-> "extend", src_to_bus |-> FALSE, alu_to_bus |-> TRUE, rr |-> FALSE, wr |-> FALSE, rio |-> FALSE, wio |-> FALSE, store_pc |-> FALSE]) @@
  ("NEG" :> [value |-> 19, args |-> "DEST", alu_b_sel |-> "Source", imm_ext_mode |-> "extend", src_to_bus |-> FALSE, alu_to_bus |-> TRUE, rr |-> FALSE, wr |-> FALSE, rio |-> FALSE, wio |-> FALSE, store_pc |-> FALSE]) @@
  ("ANDI" :> [value |-> 20, args |-> "DEST_CONST", alu_b_sel |-> "ImReg", imm_ext_mode |-> "src0", src_to_bus |-> FALSE, alu_to_bus |-> TRUE, rr |-> FALSE, wr |-> FALSE, rio |-> FALSE, wio |-> FALSE, store_pc |-> FALSE]) @@
  ("ANDIs" :> [value |-> 21, args |-> "DEST_CONST", alu_b_sel |-> "instrSource", imm_ext_mode |-> "extend", src_to_bus |-> FALSE, alu_to_bus |-> TRUE, rr |-> FALSE, wr |-> FALSE, rio |-> FALSE, wio |-> FALSE, store_pc |-> FALSE]) @@
  ("ORI" :> [value |-> 22, args |-> "DEST_CONST", alu_b_sel |-> "ImReg", imm_ext_mode |-> "src0", src_to_bus |-> FALSE, alu_to_bus |-> TRUE, rr |-> FALSE, wr |-> FALSE, rio |-> FALSE, wio |-> FALSE, store_pc |-> FALSE]) @@
  ("ORIs" :> [value |-> 23, args |-> "DEST_CONST", alu_b_sel |-> "instrSource", imm_ext_mode |-> "extend", src_to_bus |-> FALSE, alu_to_bus |-> TRUE, rr |-> FALSE, wr |-> FALSE, rio |-> FALSE, wio |-> FALSE, store_pc |-> FALSE]) @@
  ("EORI" :> [value |-> 24, args |-> "DEST_CONST", alu_b_sel |-> "ImReg", imm_ext_mode |-> "src0", src_to_bus |-> FALSE, alu_to_bus |-> TRUE, rr |-> FALSE, wr |-> FALSE, rio |-> FALSE, wio |-> FALSE, store_pc |-> FALSE]) @@
  ("EORIs" :> [value |-> 25, args |-> "DEST_CONST", alu_b_sel |-> "instrSource", imm_ext_mode |-> "extend", src_to_bus |-> FALSE, alu_to_bus |-> TRUE, rr |-> FALSE, wr |-> FALSE, rio |-> FALSE, wio |-> FALSE, store_pc |-> FALSE]) @@
  ("NOT" :> [value |-> 26, args |-> "DEST", alu_b_sel |-> "Source", imm_ext_mode |-> "extend", src_to_bus |-> FALSE, alu_to_bus |-> TRUE, rr |-> FALSE, wr |-> FALSE, rio |-> FALSE, wio |-> FALSE, store_pc |-> FALSE]) @@
  ("MUL" :> [value |-> 27, args |-> "DEST_SOURCE", alu_b_sel |-> "Source", imm_ext_mode |-> "extend", src_to_bus |-> FALSE, alu_to_bus |-> TRUE, rr |-> FALSE, wr |-> FALSE, rio |-> FALSE, wio |-> FALSE, store_pc |-> FALSE]) @@
  ("MULI" :> [value |-> 28, args |-> "DEST_CONST", alu_b_sel |-> "ImReg", imm_ext_mode |-> "src0", src_to_bus |-> FALSE, alu_to_bus |-> TRUE, rr |-> FALSE, wr |-> FALSE, rio |-> FALSE, wio |-> FALSE, store_pc |-> FALSE]) @@
  ("MULIs" :> [value |-> 29, args |-> "DEST_CONST", alu_b_sel |-> "instrSource", imm_ext_mode |-> "extend", src_to_bus |-> FALSE, alu_to_bus |-> TRUE, rr |-> FALSE, wr |-> FALSE, rio |-> FALSE, wio |-> FALSE, store_pc |-> FALSE]) @@
  ("CMP" :> [value |-> 30, args |-> "DEST_SOURCE", alu_b_sel |-> "Source", imm_ext_mode |-> "extend", src_to_bus |-> FALSE, alu_to_bus |-> FALSE, rr |-> FALSE, wr |-> FALSE, rio |-> FALSE, wio |-> FALSE, store_pc |-> FALSE]) @@
  ("CPC" :> [value |-> 31, args |-> "DEST_SOURCE", alu_b_sel |-> "Source", imm_ext_mode |-> "extend", src_to_bus |-> FALSE, alu_to_bus |-> FALSE, rr |-> FALSE, wr |-> FALSE, rio |-> FALSE, wio |-> FALSE, store_pc |-> FALSE]) @@
  ("CPI" :> [value |-> 32, args |-> "DEST_CONST", alu_b_sel |-> "ImReg", imm_ext_mode |-> "src0", src_to_bus |-> FALSE, alu_to_bus |-> FALSE, rr |-> FALSE, wr |-> FALSE, rio |-> FALSE, wio |-> FALSE, store_pc |-> FALSE]) @@
  ("CPIs" :> [value |-> 33, args |-> "DEST_CONST", alu_b_sel |-> "instrSource", imm_ext_mode |-> "extend", src_to_bus |-> FALSE, alu_to_bus |-> FALSE, rr |-> FALSE, wr |-> FALSE, rio |-> FALSE, wio |-> FALSE, store_pc |-> FALSE]) @@
  ("CPCI" :> [value |-> 34, args |-> "DEST_CONST", alu_b_sel |-> "ImReg", imm_ext_mode |-> "src0", src_to_bus |-> FALSE, alu_to_bus |-> FALSE, rr |-> FALSE, wr |-> FALSE, rio |-> FALSE, wio |-> FALSE, store_pc |-> FALSE]) @@
  ("CPCIs" :> [value |-> 35, args |-> "DEST_CONST", alu_b_sel |-> "instrSource", imm_ext_mode |-> "extend", src_to_bus |-> FALSE, alu_to_bus |-> FALSE, rr |-> FALSE, wr |-> FALSE, rio |-> FALSE, wio |-> FALSE, store_pc |-> FALSE]) @@
  ("LSL" :> [value |-> 36, args |-> "DEST", alu_b_sel |-> "Source", imm_ext_mode |-> "extend", src_to_bus |-> FALSE, alu_to_bus |-> TRUE, rr |-> FALSE, wr |-> FALSE, rio |-> FALSE, wio |-> FALSE, store_pc |-> FALSE]) @@
  ("LSR" :> [value |-> 37, args |-> "DEST", alu_b_sel |-> "Source", imm_ext_mode |-> "extend", src_to_bus |-> FALSE, alu_to_bus |-> TRUE, rr |-> FALSE, wr |-> FALSE, rio |-> FALSE, wio |-> FALSE, store_pc |-> FALSE]) @@
  ("ROL" :> [value |-> 38, args |-> "DEST", alu_b_sel |-> "Source", imm_ext_mode |-> "extend", src_to_bus |-> FALSE, alu_to_bus |-> TRUE, rr |-> FALSE, wr |-> FALSE, rio |-> FALSE, wio |-> FALSE, store_pc |-> FALSE]) @@
  ("ROR" :> [value |-> 39, args |-> "DEST", alu_b_sel |-> "Source", imm_ext_mode |-> "extend", src_to_bus |-> FALSE, alu_to_bus |-> TRUE, rr |-> FALSE, wr |-> FALSE, rio |-> FALSE, wio |-> FALSE, store_pc |-> FALSE]) @@
  ("ASR" :> [value |-> 40, args |-> "DEST", alu_b_sel |-> "Source", imm_ext_mode |-> "extend", src_to_bus |-> FALSE, alu_to_bus |-> TRUE, rr |-> FALSE, wr |-> FALSE, rio |-> FALSE, wio |-> FALSE, store_pc |-> FALSE]) @@
  ("SWAP" :> [value |-> 41, args |-> "DEST", alu_b_sel |-> "Source", imm_ext_mode |-> "extend", src_to_bus |-> FALSE, alu_to_bus |-> TRUE, rr |-> FALSE, wr |-> FALSE, rio |-> FALSE, wio |-> FALSE, store_pc |-> FALSE]) @@
  ("SWAPN" :> [value |-> 42, args |-> "DEST", alu_b_sel |-> "Source", imm_ext_mode |-> "extend", src_to_bus |-> FALSE, alu_to_bus |-> TRUE, rr |-> FALSE, wr |-> FALSE, rio |-> FALSE, wio |-> FALSE, store_pc |-> FALSE]) @@
  ("ST" :> [value |-> 43, args |-> "BDEST_SOURCE", alu_b_sel |-> "Zero", imm_ext_mode |-> "extend", src_to_bus |-> TRUE, alu_to_bus |-> FALSE, rr |-> FALSE, wr |-> TRUE, rio |-> FALSE, wio |-> FALSE, store_pc |-> FALSE]) @@
  ("LD" :> [value |-> 44, args |-> "DEST_BSOURCE", alu_b_sel |-> "Zero", imm_ext_mode |-> "extend", src_to_bus |-> FALSE, alu_to_bus |-> FALSE, rr |-> TRUE, wr |-> FALSE, rio |-> FALSE, wio |-> FALSE, store_pc |-> FALSE]) @@
  ("STS" :> [value |-> 45, args |-> "CONST_SOURCE", alu_b_sel |-> "ImReg", imm_ext_mode |-> "dest0", src_to_bus |-> TRUE, alu_to_bus |-> FALSE, rr |-> FALSE, wr |-> TRUE, rio |-> FALSE, wio |-> FALSE, store_pc |-> FALSE]) @@
  ("STSs" :> [value |-> 46, args |-> "CONST_SOURCE", alu_b_sel |-> "instrDest", imm_ext_mode |-> "extend", src_to_bus |-> TRUE, alu_to_bus |-> FALSE, rr |-> FALSE, wr |-> TRUE, rio |-> FALSE, wio |-> FALSE, store_pc |-> FALSE]) @@
  ("LDS" :> [value |-> 47, args |-> "DEST_CONST", alu_b_sel |-> "ImReg", imm_ext_mode |-> "src0", src_to_bus |-> FALSE, alu_to_bus |-> FALSE, rr |-> TRUE, wr |-> FALSE, rio |-> FALSE, wio |-> FALSE, store_pc |-> FALSE]) @@
  ("LDSs" :> [value |-> 48, args |-> "DEST_CONST", alu_b_sel |-> "instrSource", imm_ext_mode |-> "extend", src_to_bus |-> FALSE, alu_to_bus |-> FALSE, rr |-> TRUE, wr |-> FALSE, rio |-> FALSE, wio |-> FALSE, store_pc |-> FALSE]) @@
  ("STD" :> [value |-> 49, args |-> "BDEST_BCONST_SOURCE", alu_b_sel |-> "ImReg", imm_ext_mode |-> "extend", src_to_bus |-> TRUE, alu_to_bus |-> FALSE, rr |-> FALSE, wr |-> TRUE, rio |-> FALSE, wio |-> FALSE, store_pc |-> FALSE]) @@
  ("LDD" :> [value |-> 50, args |-> "DEST_BSOURCE_BCONST", alu_b_sel |-> "ImReg", imm_ext_mode |-> "extend", src_to_bus |-> FALSE, alu_to_bus |-> FALSE, rr |-> TRUE, wr |-> FALSE, rio |-> FALSE, wio |-> FALSE, store_pc |-> FALSE]) @@
  ("LPM" :> [value |-> 51, args |-> "DEST_BSOURCE", alu_b_sel |-> "Rom", imm_ext_mode |-> "extend", src_to_bus |-> FALSE, alu_to_bus |-> TRUE, rr |-> FALSE, wr |-> FALSE, rio |-> FALSE, wio |-> FALSE, store_pc |-> FALSE]) @@
  ("BRCS" :> [value |-> 52, args |-> "CONST", alu_b_sel |-> "instrSourceAndDest", imm_ext_mode |-> "extend", src_to_bus |-> FALSE, alu_to_bus |-> FALSE, rr |-> FALSE, wr |-> FALSE, rio |-> FALSE, wio |-> FALSE, store_pc |-> FALSE]) @@
  ("BREQ" :> [value |-> 53, args |-> "CONST", alu_b_sel |-> "instrSourceAndDest", imm_ext_mode |-> "extend", src_to_bus |-> FALSE, alu_to_bus |-> FALSE, rr |-> FALSE, wr |-> FALSE, rio |-> FALSE, wio |-> FALSE, store_pc |-> FALSE]) @@
  ("BRMI" :> [value |-> 54, args |-> "CONST", alu_b_sel |-> "instrSourceAndDest", imm_ext_mode |-> "extend", src_to_bus |-> FALSE, alu_to_bus |-> FALSE, rr |-> FALSE, wr |-> FALSE, rio |-> FALSE, wio |-> FALSE, store_pc |-> FALSE]) @@
  ("BRCC" :> [value |-> 55, args |-> "CONST", alu_b_sel |-> "instrSourceAndDest", imm_ext_mode |-> "extend", src_to_bus |-> FALSE, alu_to_bus |-> FALSE, rr |-> FALSE, wr |-> FALSE, rio |-> FALSE, wio |-> FALSE, store_pc |-> FALSE]) @@
  ("BRNE" :> [value |-> 56, args |-> "CONST", alu_b_sel |-> "instrSourceAndDest", imm_ext_mode |-> "extend", src_to_bus |-> FALSE, alu_to_bus |-> FALSE, rr |-> FALSE, wr |-> FALSE, rio |-> FALSE, wio |-> FALSE, store_pc |-> FALSE]) @@
  ("BRPL" :> [value |-> 57, args |-> "CONST", alu_b_sel |-> "instrSourceAndDest", imm_ext_mode |-> "extend", src_to_bus |-> FALSE, alu_to_bus |-> FALSE, rr |-> FALSE, wr |-> FALSE, rio |-> FALSE, wio |-> FALSE, store_pc |-> FALSE]) @@
  ("RCALL" :> [value |-> 58, args |-> "DEST_CONST", alu_b_sel |-> "ImReg", imm_ext_mode |-> "src0", src_to_bus |-> FALSE, alu_to_bus |-> FALSE, rr |-> FALSE, wr |-> FALSE, rio |-> FALSE, wio |-> FALSE, store_pc |-> TRUE]) @@
  ("RRET" :> [value |-> 59, args |-> "SOURCE", alu_b_sel |-> "Source", imm_ext_mode |-> "extend", src_to_bus |-> FALSE, alu_to_bus |-> FALSE, rr |-> FALSE, wr |-> FALSE, rio |-> FALSE, wio |-> FALSE, store_pc |-> FALSE]) @@
  ("JMP" :> [value |-> 60, args |-> "CONST", alu_b_sel |-> "ImReg", imm_ext_mode |-> "src0", src_to_bus |-> FALSE, alu_to_bus |-> FALSE, rr |-> FALSE, wr |-> FALSE, rio |-> FALSE, wio |-> FALSE, store_pc |-> FALSE]) @@
  ("JMPs" :> [value |-> 61, args |-> "CONST", alu_b_sel |-> "instrSourceAndDest", imm_ext_mode |-> "extend", src_to_bus |-> FALSE, alu_to_bus |-> FALSE, rr |-> FALSE, wr |-> FALSE, rio |-> FALSE, wio |-> FALSE, store_pc |-> FALSE]) @@
  ("OUT" :> [value |-> 62, args |-> "CONST_SOURCE", alu_b_sel |-> "ImReg", imm_ext_mode |-> "dest0", src_to_bus |-> TRUE, alu_to_bus |-> FALSE, rr |-> FALSE, wr |-> FALSE, rio |-> FALSE, wio |-> TRUE, store_pc |-> FALSE]) @@
  ("OUTs" :> [value |-> 63, args |-> "CONST_SOURCE", alu_b_sel |-> "instrDest", imm_ext_mode |-> "extend", src_to_bus |-> TRUE, alu_to_bus |-> FALSE, rr |-> FALSE, wr |-> FALSE, rio |-> FALSE, wio |-> TRUE, store_pc |-> FALSE]) @@
  ("OUTR" :> [value |-> 64, args |-> "BDEST_SOURCE", alu_b_sel |-> "Zero", imm_ext_mode |-> "extend", src_to_bus |-> TRUE, alu_to_bus |-> FALSE, rr |-> FALSE, wr |-> FALSE, rio |-> FALSE, wio |-> TRUE, store_pc |-> FALSE]) @@
  ("IN" :> [value |-> 65, args |-> "DEST_CONST", alu_b_sel |-> "ImReg", imm_ext_mode |-> "src0", src_to_bus |-> FALSE, alu_to_bus |-> FALSE, rr |-> FALSE, wr |-> FALSE, rio |-> TRUE, wio |-> FALSE, store_pc |-> FALSE]) @@
  ("INs" :> [value |-> 66, args |-> "DEST_CONST", alu_b_sel |-> "instrSource", imm_ext_mode |-> "extend", src_to_bus |-> FALSE, alu_to_bus |-> FALSE, rr |-> FALSE, wr |-> FALSE, rio |-> TRUE, wio |-> FALSE, store_pc |-> FALSE]) @@
  ("INR" :> [value |-> 67, args |-> "DEST_BSOURCE", alu_b_sel |-> "Zero", imm_ext_mode |-> "extend", src_to_bus |-> FALSE, alu_to_bus |-> FALSE, rr |-> FALSE, wr |-> FALSE, rio |-> TRUE, wio |-> FALSE, store_pc |-> FALSE]) @@
  ("BRK" :> [value |-> 68, args |-> "NOTHING", alu_b_sel |-> "Source", imm_ext_mode |-> "extend", src_to_bus |-> FALSE, alu_to_bus |-> FALSE, rr |-> FALSE, wr |-> FALSE, rio |-> FALSE, wio |-> FALSE, store_pc |-> FALSE]) @@
  ("RETI" :> [value |-> 69, args |-> "NOTHING", alu_b_sel |-> "Source", imm_ext_mode |-> "extend", src_to_bus |-> FALSE, alu_to_bus |-> FALSE, rr |-> FALSE, wr |-> FALSE, rio |-> FALSE, wio |-> FALSE, store_pc |-> FALSE])

(***************************************************************************)
(* MNEMONIC_ARG_LOOKUP: which of source, dest and constant a shape uses.   *)
(***************************************************************************)
MNEMONIC_ARG_LOOKUP ==
  ("NOTHING" :> [has_source |-> FALSE, has_dest |-> FALSE, has_const |-> FALSE]) @@
  ("SOURCE" :> [has_source |-> TRUE, has_dest |-> FALSE, has_const |-> FALSE]) @@
  ("DEST" :> [has_source |-> FALSE, has_dest |-> TRUE, has_const |-> FALSE]) @@
  ("CONST" :> [has_source |-> FALSE, has_dest |-> FALSE, has_const |-> TRUE]) @@
  ("DEST_SOURCE" :> [has_source |-> TRUE, has_dest |-> TRUE, has_const |-> FALSE]) @@
  ("DEST_CONST" :> [has_source |-> FALSE, has_dest |-> TRUE, has_const |-> TRUE]) @@
  ("BDEST_SOURCE" :> [has_source |-> TRUE, has_dest |-> TRUE, has_const |-> FALSE]) @@
  ("DEST_BSOURCE" :> [has_source |-> TRUE, has_dest |-> TRUE, has_const |-> FALSE]) @@
  ("CONST_SOURCE" :> [has_source |-> TRUE, has_dest |-> FALSE, has_const |-> TRUE]) @@
  ("BDEST_BCONST_SOURCE" :> [has_source |-> TRUE, has_dest |-> TRUE, has_const |-> TRUE]) @@
  ("DEST_BSOURCE_BCONST" :> [has_source |-> TRUE, has_dest |-> TRUE, has_const |-> TRUE])

(***************************************************************************)
(* Expressions.  An expression is a record tagged by k:                    *)
(*   [k |-> "const", v], [k |-> "id", name], [k |-> "neg", a],             *)
(*   [k |-> "not", a], [k |-> "op", op, a, b].                             *)
(* Evaluation yields [err, v]; err = "" when a value was produced.         *)
(***************************************************************************)
Const(n) == [k |-> "const", v |-> n]
Identifier(s) == [k |-> "id", name |-> s]
Neg(e) == [k |-> "neg", a |-> e]
NotOp(e) == [k |-> "not", a |-> e]
Operate(a, op, b) == [k |-> "op", op |-> op, a |-> a, b |-> b]

Val(n) == [err |-> "", v |-> n]
Raise(m) == [err |-> m, v |-> 0]

RECURSIVE BitAnd(_, _)
BitAnd(a, b) ==
  IF a = 0 \/ b = 0 THEN 0
  ELSE IF a = -1 THEN b
  ELSE IF b = -1 THEN a
  ELSE (a % 2) * (b % 2) + 2 * BitAnd(a \div 2, b \div 2)

RECURSIVE BitOr(_, _)
BitOr(a, b) ==
  IF a = 0 THEN b
  ELSE IF b = 0 THEN a
  ELSE IF a = -1 \/ b = -1 THEN -1
  ELSE (IF a % 2 = 1 \/ b % 2 = 1 THEN 1 ELSE 0) + 2 * BitOr(a \div 2, b \div 2)

RECURSIVE BitXor(_, _)
BitXor(a, b) ==
  IF a = 0 THEN b
  ELSE IF b = 0 THEN a
  ELSE IF a = -1 THEN -b - 1
  ELSE IF b = -1 THEN -a - 1
  ELSE (((a % 2) + (b % 2)) % 2) + 2 * BitXor(a \div 2, b \div 2)

\* a division that rounds toward zero
FloorDiv_truncating(a, b) ==
  LET abs(x) == IF x < 0 THEN -x ELSE x
  IN IF (a >= 0) = (b > 0) THEN abs(a) \div abs(b) ELSE -(abs(a) \div abs(b))

FloorDiv(a, b) == IF b > 0 THEN a \div b ELSE (-a) \div (-b)

(***************************************************************************)
(* Context: the identifier dictionary keyed by lower-case name, and the    *)
(* address of the actual instruction.                                      *)
(***************************************************************************)
NewContext == [identifier |-> ("_addr_" :> 0), instr_addr |-> 0]

ContextGet(context, name) ==
  LET lookup(name_lower) ==
        IF name_lower \in DOMAIN context.identifier
        THEN Val(context.identifier[name_lower])
        ELSE Raise("not found")
  IN lookup(Lower(name))

set_identifier(context, name, value) ==
  [identifier |-> (Lower(name) :> value) @@ context.identifier,
   instr_addr |-> IF name = "_ADDR_" THEN value ELSE context.instr_addr]

\* add_identifier yields [err, context]
add_identifier(context, name, value) ==
  LET bound_otherwise(name_lower) ==
        /\ name_lower \in DOMAIN context.identifier
        /\ context.identifier[name_lower] # value
  IN IF bound_otherwise(Lower(name))
     THEN [err |-> "defined twice", context |-> context]
     ELSE [err |-> "", context |-> set_identifier(context, name, value)]

set_instr_addr(context, instr_addr) ==
  set_identifier([context EXCEPT !.instr_addr = instr_addr], "_ADDR_", instr_addr)

RECURSIVE get_value(_, _)
get_value(e, context) ==
  CASE e.k = "const" -> Val(e.v)
    [] e.k = "id" -> ContextGet(context, e.name)
    [] e.k = "neg" ->
         LET negated(r) == IF r.err # "" THEN r ELSE Val(-r.v)
         IN negated(get_value(e.a, context))
    [] e.k = "not" ->
         LET inverted(r) == IF r.err # "" THEN r ELSE Val(-r.v - 1)
         IN inverted(get_value(e.a, context))
    [] e.k = "op" ->
         LET calc(av, bv) ==
               IF av.err # "" THEN av
               ELSE IF bv.err # "" THEN bv
               ELSE CASE e.op = "OR" -> Val(BitOr(av.v, bv.v))
                      [] e.op = "AND" -> Val(BitAnd(av.v, bv.v))
                      [] e.op = "XOR" -> Val(BitXor(av.v, bv.v))
                      [] e.op = "ADD" -> Val(av.v + bv.v)
                      [] e.op = "SUB" -> Val(av.v - bv.v)
                      [] e.op = "MUL" -> Val(av.v * bv.v)
                      [] e.op = "DIV" ->
                           IF bv.v = 0 THEN Raise("Division by zero")
                           ELSE Val(FloorDiv(av.v, bv.v))
         IN calc(get_value(e.a, context), get_value(e.b, context))

(***************************************************************************)
(* Instruction and DataInstruction.  Both are records with the same        *)
(* fields; kind tells them apart.                                          *)
(***************************************************************************)
Instruction(opcode, dest_reg, source_reg, constant) ==
  [kind |-> "instr", opcode |-> opcode, dest_reg |-> dest_reg,
   source_reg |-> source_reg, constant |-> constant, value |-> 0,
   label |-> None, macro_description |-> None, comment |-> None,
   line_number |-> 0, abs_addr |-> -1]

DataInstruction(value, line_num, label) ==
  [kind |-> "data", opcode |-> "NOP", dest_reg |-> 0, source_reg |-> 0,
   constant |-> NoExpr, value |-> value,
   label |-> label, macro_description |-> None, comment |-> None,
   line_number |-> line_num, abs_addr |-> -1]

\* variant: every item counts one word
size_one_word(i) == 1

size(i) ==
  IF i.kind = "data" THEN 1
  ELSE IF Opcode[i.opcode].alu_b_sel = "ImReg" THEN 2 ELSE 1

Pow2(n) == 2 ^ n

\* variant: the upper limit itself is taken as invalid
is_const_invalid_strict(value, bits, signed) ==
  IF signed
  THEN ~ (-Pow2(bits - 1) <= value /\ value < Pow2(bits - 1) - 1)
  ELSE ~ (0 <= value /\ value < Pow2(bits) - 1)

is_const_invalid(value, bits, signed) ==
  IF signed
  THEN ~ (-Pow2(bits - 1) <= value /\ value <= Pow2(bits - 1) - 1)
  ELSE ~ (0 <= value /\ value <= Pow2(bits) - 1)

\* variant: the marker bit is left out
const_word_unmarked(con) == con % 32768

\* the constant word of a two-word instruction: 15 bits and the marker bit
const_word(con) == (con % 32768) + 32768

\* variant: the two register nibbles change places
reg_byte_swapped(dest_reg, source_reg) == dest_reg + source_reg * 16

\* the default low byte: source register, destination register << 4
reg_byte(dest_reg, source_reg) == source_reg + dest_reg * 16

(***************************************************************************)
(* create_machine_code yields [err, code]: the words handed to the         *)
(* listener, in order, and the exception raised, if any.                   *)
(***************************************************************************)
create_machine_code(i, context) ==
  IF i.kind = "data" THEN [err |-> "", code |-> <<i.value % 65536>>]
  ELSE
  LET encode(r, oc) ==
  LET con == r.v
      alu_b_sel == oc.alu_b_sel
      imm_ext == oc.imm_ext_mode
      default == reg_byte(i.dest_reg, i.source_reg)
      ofs == con - context.instr_addr - 1
      const_bit == IF (con % 65536) >= 32768 THEN 1 ELSE 0
      word(mcode) == mcode + oc.value * 256
  IN
  IF r.err # "" THEN [err |-> r.err, code |-> <<>>]
  ELSE CASE alu_b_sel = "instrSourceAndDest" ->
         IF is_const_invalid(ofs, 8, TRUE)
         THEN [err |-> "branch target out of range", code |-> <<>>]
         ELSE [err |-> "", code |-> <<word(ofs % 256)>>]
    [] alu_b_sel = "instrSource" ->
         IF is_const_invalid(con, 4, FALSE)
         THEN [err |-> "short constant too large", code |-> <<>>]
         ELSE [err |-> "", code |-> <<word((con % 16) + i.dest_reg * 16)>>]
    [] alu_b_sel = "instrDest" ->
         IF is_const_invalid(con, 4, FALSE)
         THEN [err |-> "short constant too large", code |-> <<>>]
         ELSE [err |-> "", code |-> <<word(i.source_reg + (con % 16) * 16)>>]
    [] alu_b_sel = "ImReg" ->
         IF imm_ext = "extend" /\ is_const_invalid(con, 15, TRUE)
         THEN [err |-> "displacement constant too large", code |-> <<>>]
         ELSE IF imm_ext # "extend" /\ is_const_invalid(con, 16, FALSE)
                 /\ is_const_invalid(con, 16, TRUE)
         THEN [err |-> "constant out of 16-bit range", code |-> <<>>]
         ELSE [err |-> "",
               code |-> << const_word(con),
                           word(CASE imm_ext = "src0" -> const_bit + i.dest_reg * 16
                                  [] imm_ext = "dest0" -> i.source_reg + const_bit * 16
                                  [] OTHER -> default) >>]
    [] OTHER -> [err |-> "", code |-> <<word(default)>>]
  IN encode(IF i.constant = NoExpr THEN Val(0) ELSE get_value(i.constant, context),
            Opcode[i.opcode])

(***************************************************************************)
(* The visitors.  A visit yields [instr, context, vs, err]: the possibly   *)
(* rewritten instruction, the context, the visitor's own state and the     *)
(* exception raised, if any.  The visitor state vs holds was_optimized of  *)
(* the optimizers and the buffer and max_addr of the HexFormatter.         *)
(***************************************************************************)
NewVisitor == [optimized |-> FALSE, output_buffer |-> <<>>, max_addr |-> -1]

Visited(i, context, vs, err) ==
  [instr |-> i, context |-> context, vs |-> vs, err |-> err]

LinkAddVisitor(i, context, vs) ==
  IF i.label # None
  THEN LET added(r) == Visited(i, r.context, vs, r.err)
       IN added(add_identifier(context, i.label, context.instr_addr))
  ELSE Visited(i, context, vs, "")

LinkSetVisitor(i, context, vs) ==
  IF i.label # None
  THEN Visited(i, set_identifier(context, i.label, context.instr_addr), vs, "")
  ELSE Visited(i, context, vs, "")

short_constant_map ==
  ("LDI" :> "LDIs") @@ ("OUT" :> "OUTs") @@ ("ADDI" :> "ADDIs") @@
  ("ADCI" :> "ADCIs") @@ ("SUBI" :> "SUBIs") @@ ("SBCI" :> "SBCIs") @@
  ("ANDI" :> "ANDIs") @@ ("ORI" :> "ORIs") @@ ("EORI" :> "EORIs") @@
  ("CPI" :> "CPIs") @@ ("CPCI" :> "CPCIs") @@ ("LDS" :> "LDSs") @@
  ("STS" :> "STSs") @@ ("MULI" :> "MULIs") @@ ("IN" :> "INs")

\* variant: 16 is taken as a short constant too
OptimizerShort_upto16(i, context, vs) ==
  IF i.kind = "instr" /\ i.opcode \in DOMAIN short_constant_map
     /\ i.constant # NoExpr
  THEN LET fits(r) == r.err = "" /\ 0 <= r.v /\ r.v <= 16
       IN IF fits(get_value(i.constant, context))
          THEN Visited([i EXCEPT !.opcode = short_constant_map[i.opcode]],
                       context, [vs EXCEPT !.optimized = TRUE], "")
          ELSE Visited(i, context, vs, "")
  ELSE Visited(i, context, vs, "")

OptimizerShort(i, context, vs) ==
  IF i.kind = "instr" /\ i.opcode \in DOMAIN short_constant_map
     /\ i.constant # NoExpr
  THEN LET fits(r) == r.err = "" /\ 0 <= r.v /\ r.v <= 15
       IN IF fits(get_value(i.constant, context))
          THEN Visited([i EXCEPT !.opcode = short_constant_map[i.opcode]],
                       context, [vs EXCEPT !.optimized = TRUE], "")
          ELSE Visited(i, context, vs, "")
  ELSE Visited(i, context, vs, "")

\* variant: the largest forward offset is not taken
OptimizerJmp_narrow(i, context, vs) ==
  IF i.kind = "instr" /\ i.opcode = "JMP" /\ i.constant # NoExpr
  THEN LET fits(r) ==
             LET ofs == r.v - context.instr_addr - 1
             IN r.err = "" /\ -128 <= ofs /\ ofs < 127
       IN IF fits(get_value(i.constant, context))
          THEN Visited([i EXCEPT !.opcode = "JMPs"], context,
                       [vs EXCEPT !.optimized = TRUE], "")
          ELSE Visited(i, context, vs, "")
  ELSE Visited(i, context, vs, "")

\* variant: every long jump seen counts as an optimization
OptimizerJmp_restless(i, context, vs) ==
  IF i.kind = "instr" /\ i.opcode = "JMP" /\ i.constant # NoExpr
  THEN LET fits(r) ==
             LET ofs == r.v - context.instr_addr - 1
             IN r.err = "" /\ -128 <= ofs /\ ofs <= 127
       IN IF fits(get_value(i.constant, context))
          THEN Visited([i EXCEPT !.opcode = "JMPs"], context,
                       [vs EXCEPT !.optimized = TRUE], "")
          ELSE Visited(i, context, [vs EXCEPT !.optimized = TRUE], "")
  ELSE Visited(i, context, vs, "")

OptimizerJmp(i, context, vs) ==
  IF i.kind = "instr" /\ i.opcode = "JMP" /\ i.constant # NoExpr
  THEN LET fits(r) ==
             LET ofs == r.v - context.instr_addr - 1
             IN r.err = "" /\ -128 <= ofs /\ ofs <= 127
       IN IF fits(get_value(i.constant, context))
          THEN Visited([i EXCEPT !.opcode = "JMPs"], context,
                       [vs EXCEPT !.optimized = TRUE], "")
          ELSE Visited(i, context, vs, "")
  ELSE Visited(i, context, vs, "")

\* CodeCollector.add for each word of code, starting at start_addr
RECURSIVE Collect(_, _, _)
Collect(buffer, current_addr, code) ==
  IF code = <<>> THEN buffer
  ELSE Collect((current_addr :> (Head(code) % 65536)) @@ buffer,
               current_addr + 1, Tail(code))

Max(a, b) == IF a >= b THEN a ELSE b

HexFormatterVisit(i, context, vs) ==
  LET instr_addr == context.instr_addr
      listener(r) ==
        LET collected(buffer) ==
              IF r.err # ""
              THEN Visited(i, context, [vs EXCEPT !.output_buffer = buffer], r.err)
              ELSE Visited(i, context,
                     [vs EXCEPT !.output_buffer = buffer,
                                !.max_addr = Max(vs.max_addr,
                                                 instr_addr - 1 + Len(r.code))], "")
        IN collected(Collect(vs.output_buffer, instr_addr, r.code))
  IN listener(create_machine_code(i, context))

Visit(V, i, context, vs) ==
  CASE V = "LinkAdd" -> LinkAddVisitor(i, context, vs)
    [] V = "LinkSet" -> LinkSetVisitor(i, context, vs)
    [] V = "Short" -> OptimizerShort(i, context, vs)
    [] V = "Jmp" -> OptimizerJmp(i, context, vs)
    [] V = "Hex" -> HexFormatterVisit(i, context, vs)

(***************************************************************************)
(* Program._calc_rel_addr: the sizes of the n items from index idx on.     *)
(***************************************************************************)
RECURSIVE calc_rel_addr(_, _, _)
calc_rel_addr(p, idx, n) ==
  IF n = 0 \/ idx > Len(p) THEN 0
  ELSE size(p[idx]) + calc_rel_addr(p, idx + 1, n - 1)

(***************************************************************************)
(* Program.traverse.  The traversal state is                               *)
(*   [prog, context, vs, addr, last_addr, map, err, place, ctxs];          *)
(* place and ctxs record, per item visited, the address it was visited at  *)
(* and the context handed to the visitor.                                  *)
(* TraverseFrom handles the items from index idx (1-based) on.             *)
(***************************************************************************)
RECURSIVE TraverseFrom(_, _, _)
TraverseFrom(V, idx, t) ==
  IF idx > Len(t.prog) \/ t.err # "" THEN t
  ELSE
  LET instr == t.prog[idx]
      abs_addr == instr.abs_addr
      backward == /\ abs_addr >= 0
                  /\ abs_addr < t.addr
                  /\ ~ (/\ abs_addr = t.last_addr
                        /\ idx > 1
                        /\ t.prog[idx - 1].abs_addr = abs_addr)
      addr == IF abs_addr >= 0 THEN abs_addr ELSE t.addr
      visit_with(c4) ==
        LET visited(r) ==
              IF r.err # ""
              THEN [t EXCEPT !.context = r.context, !.vs = r.vs, !.err = r.err,
                             !.addr = addr]
              ELSE TraverseFrom(V, idx + 1,
                     [prog |-> [t.prog EXCEPT ![idx] = r.instr],
                      context |-> r.context,
                      vs |-> r.vs,
                      addr |-> addr + size(r.instr),
                      last_addr |-> addr,
                      map |-> (addr :> instr.line_number) @@ t.map,
                      err |-> "",
                      place |-> Append(t.place, addr),
                      ctxs |-> Append(t.ctxs, c4)])
        IN visited(Visit(V, instr, c4, t.vs))
  IN IF backward
     THEN [t EXCEPT !.err = ".org cannot jump backward"]
     ELSE visit_with(
            set_identifier(
              set_identifier(
                set_identifier(set_instr_addr(t.context, addr),
                               "_NEXT_ADDR_", addr + calc_rel_addr(t.prog, idx, 1)),
                "_SKIP_ADDR_", addr + calc_rel_addr(t.prog, idx, 2)),
              "_SKIP2_ADDR_", addr + calc_rel_addr(t.prog, idx, 3)))

traverse(V, p, context, vs) ==
  TraverseFrom(V, 1, [prog |-> p, context |-> context, vs |-> vs, addr |-> 0,
                      last_addr |-> -1, map |-> <<>>, err |-> "",
                      place |-> <<>>, ctxs |-> <<>>])

(***************************************************************************)
(* HexFormatter.finalize: the lines printed.                               *)
(***************************************************************************)
HexDigit == <<"0", "1", "2", "3", "4", "5", "6", "7", "8", "9", "a", "b", "c", "d", "e", "f">>

RECURSIVE Hex(_)
Hex(n) == IF n < 16 THEN HexDigit[n + 1] ELSE Hex(n \div 16) \o HexDigit[(n % 16) + 1]

RECURSIVE HexLines(_, _, _)
HexLines(buffer, addr, program_size) ==
  IF addr >= program_size THEN <<>>
  ELSE <<Hex(IF addr \in DOMAIN buffer THEN buffer[addr] ELSE 0)>>
       \o HexLines(buffer, addr + 1, program_size)

\* variant: the last address is not printed
finalize_short(vs) ==
  IF DOMAIN vs.output_buffer = {} THEN <<"v2.0 raw">>
  ELSE <<"v2.0 raw">> \o HexLines(vs.output_buffer, 0, vs.max_addr)

finalize(vs) ==
  IF DOMAIN vs.output_buffer = {} THEN <<"v2.0 raw">>
  ELSE <<"v2.0 raw">> \o HexLines(vs.output_buffer, 0, vs.max_addr + 1)

(***************************************************************************)
(* The tokenizer.  A token is [type, value, upper, lower, stripped, chars, *)
(* num, line]: value is the token's text (a label definition without its   *)
(* colon), upper, lower and stripped are value.upper(), value.lower() and  *)
(* value.strip(), num is the integer a HEX, BIN or DEC token denotes.      *)
(* chars is the text of a STRING token as characters.  The source lines    *)
(* above hold no backslash and no CHAR literal: the decoding of escapes is *)
(* not modelled.  The column of a token is not kept.                       *)
(***************************************************************************)
\* the end of a block comment opened before p: the index past its first
\* closing "*/", 0 if it is never closed
RECURSIVE BlockEnd(_, _)
BlockEnd(code, p) ==
  IF p + 1 > Len(code) THEN 0
  ELSE IF code[p] = "*" /\ code[p + 1] = "/" THEN p + 2
  ELSE BlockEnd(code, p + 1)

\* the end of a STRING literal whose opening quote is before p: the index
\* past its closing quote, 0 if it is never closed
RECURSIVE StringEnd(_, _)
StringEnd(code, p) ==
  IF p > Len(code) THEN 0
  ELSE IF code[p] = "\"" THEN p + 1
  ELSE IF code[p] = "\\"
  THEN IF p + 1 > Len(code) THEN 0 ELSE StringEnd(code, p + 2)
  ELSE StringEnd(code, p + 1)

\* the alternative of TOK_REGEX that matches at p and where its match ends
Match(code, p) ==
  LET c == code[p]
      at(i) == IF i <= Len(code) THEN code[i] ELSE ""
      M(kind, end) == [kind |-> kind, end |-> end]
  IN IF c = ";" THEN M("COMMENT", RunUntil(code, p + 1, {"\n", "\r"}))
     ELSE IF c = "/" /\ at(p + 1) = "*" /\ BlockEnd(code, p + 2) # 0
       THEN M("COMMENT", BlockEnd(code, p + 2))
     ELSE IF c \in AlphaChars /\ at(RunEnd(code, p + 1, WordChars)) = ":"
       THEN M("LABELDEF", RunEnd(code, p + 1, WordChars) + 1)
     ELSE IF c = "\"" /\ StringEnd(code, p + 1) # 0
       THEN M("STRING", StringEnd(code, p + 1))
     ELSE IF c = "0" /\ at(p + 1) = "x" /\ at(p + 2) \in HexDigits
       THEN M("HEX", RunEnd(code, p + 2, HexDigits))
     ELSE IF c = "0" /\ at(p + 1) = "b" /\ at(p + 2) \in {"0", "1"}
       THEN M("BIN", RunEnd(code, p + 2, {"0", "1"}))
     ELSE IF c \in Digits THEN M("DEC", RunEnd(code, p, Digits))
     ELSE IF c = "." /\ at(p + 1) \in AlphaChars
       THEN M("DOTCMD", RunEnd(code, p + 1, AlphaChars))
     ELSE IF c \in AlphaChars THEN M("WORD", RunEnd(code, p, WordChars))
     ELSE IF c \in OpChars THEN M("OP", p + 1)
     ELSE IF c \in {"\n", "\r"} THEN M("NEWLINE", RunEnd(code, p, {"\n", "\r"}))
     ELSE IF c \in {" ", "\t"} THEN M("SKIP", RunEnd(code, p, {" ", "\t"}))
     ELSE M("MISMATCH", p + 1)

\* int(text, base)
RECURSIVE NumVal(_, _)
NumVal(w, base) ==
  IF w = <<>> THEN 0
  ELSE NumVal(SubSeq(w, 1, Len(w) - 1), base) * base + DigitVal(w[Len(w)])

Token(type, text, line) ==
  LET val == CASE type = "LABELDEF" -> SubSeq(text, 1, Len(text) - 1)
               [] type = "STRING" -> SubSeq(text, 2, Len(text) - 1)
               [] OTHER -> text
  IN [type |-> type, value |-> Str(val), upper |-> Str(upper(val)),
      lower |-> Str(lower(val)), stripped |-> Str(strip(val)),
      chars |-> IF type = "STRING" THEN val ELSE <<>>,
      num |-> CASE type = "HEX" -> NumVal(SubSeq(text, 3, Len(text)), 16)
                [] type = "BIN" -> NumVal(SubSeq(text, 3, Len(text)), 2)
                [] type = "DEC" -> NumVal(text, 10)
                [] OTHER -> 0,
      line |-> line]

Count(w, c) == Cardinality({ i \in DOMAIN w : w[i] = c })

\* tokenize yields [err, tokens]
RECURSIVE Scan(_, _, _, _)
Scan(code, p, line_num, tokens) ==
  IF p > Len(code)
  THEN [err |-> "", tokens |-> Append(tokens, Token("EOF", <<>>, line_num))]
  ELSE LET m == Match(code, p)
           text == SubSeq(code, p, m.end - 1)
       IN CASE m.kind = "NEWLINE" ->
                 Scan(code, m.end, line_num + Count(text, "\n"), tokens)
            [] m.kind = "SKIP" -> Scan(code, m.end, line_num, tokens)
            [] m.kind = "MISMATCH" ->
                 [err |-> "Unexpected character", tokens |-> <<>>]
            [] OTHER ->
                 Scan(code, m.end, line_num,
                      Append(tokens, Token(m.kind, text, line_num)))

tokenize(code) == Scan(code, 1, 1, <<>>)

(***************************************************************************)
(* The expression parser (recursive descent).  Each operator takes the     *)
(* token list and the index of the current token (1-based) and yields      *)
(* [e, i, err]: the expression, the index after it and the exception.      *)
(***************************************************************************)
TokAt(tokens, i) == IF i <= Len(tokens) THEN tokens[i] ELSE tokens[Len(tokens)]

\* the test of check_and_consume and is_next
is_next(tokens, i, value) ==
  TokAt(tokens, i).type # "EOF" /\ TokAt(tokens, i).value = value

Parsed(e, i) == [e |-> e, i |-> i, err |-> ""]
ParseError(m, i) == [e |-> NoExpr, i |-> i, err |-> m]

RECURSIVE parse_or(_, _)
RECURSIVE or_loop(_, _, _)
RECURSIVE parse_xor(_, _)
RECURSIVE xor_loop(_, _, _)
RECURSIVE parse_and(_, _)
RECURSIVE and_loop(_, _, _)
RECURSIVE parse_add_sub(_, _)
RECURSIVE add_sub_loop(_, _, _)
RECURSIVE parse_mul_div(_, _)
RECURSIVE mul_div_loop(_, _, _)
RECURSIVE parse_unary(_, _)
RECURSIVE parse_primary(_, _)

parse_expression(tokens, i) == parse_or(tokens, i)

\* In the loops expr = NoExpr says that the first operand is still to be
\* parsed; after it the loop goes on while the operator is the next token.
parse_or(tokens, i) == or_loop(tokens, i, NoExpr)
or_loop(tokens, i, expr) ==
  IF expr # NoExpr /\ ~ is_next(tokens, i, "or") THEN Parsed(expr, i)
  ELSE LET operand(b) ==
             IF b.err # "" THEN b
             ELSE or_loop(tokens, b.i,
                          IF expr = NoExpr THEN b.e ELSE Operate(expr, "OR", b.e))
       IN operand(parse_xor(tokens, IF expr = NoExpr THEN i ELSE i + 1))

parse_xor(tokens, i) == xor_loop(tokens, i, NoExpr)
xor_loop(tokens, i, expr) ==
  IF expr # NoExpr /\ ~ is_next(tokens, i, "xor") THEN Parsed(expr, i)
  ELSE LET operand(b) ==
             IF b.err # "" THEN b
             ELSE xor_loop(tokens, b.i,
                           IF expr = NoExpr THEN b.e ELSE Operate(expr, "XOR", b.e))
       IN operand(parse_and(tokens, IF expr = NoExpr THEN i ELSE i + 1))

parse_and(tokens, i) == and_loop(tokens, i, NoExpr)
and_loop(tokens, i, expr) ==
  IF expr # NoExpr /\ ~ is_next(tokens, i, "and") THEN Parsed(expr, i)
  ELSE LET operand(b) ==
             IF b.err # "" THEN b
             ELSE and_loop(tokens, b.i,
                           IF expr = NoExpr THEN b.e ELSE Operate(expr, "AND", b.e))
       IN operand(parse_add_sub(tokens, IF expr = NoExpr THEN i ELSE i + 1))

parse_add_sub(tokens, i) == add_sub_loop(tokens, i, NoExpr)
add_sub_loop(tokens, i, expr) ==
  IF expr # NoExpr /\ TokAt(tokens, i).value \notin {"+", "-"} THEN Parsed(expr, i)
  ELSE LET op == IF TokAt(tokens, i).value = "+" THEN "ADD" ELSE "SUB"
           operand(b) ==
             IF b.err # "" THEN b
             ELSE add_sub_loop(tokens, b.i,
                               IF expr = NoExpr THEN b.e ELSE Operate(expr, op, b.e))
       IN operand(parse_mul_div(tokens, IF expr = NoExpr THEN i ELSE i + 1))

parse_mul_div(tokens, i) == mul_div_loop(tokens, i, NoExpr)
mul_div_loop(tokens, i, expr) ==
  IF expr # NoExpr /\ TokAt(tokens, i).value \notin {"*", "/"} THEN Parsed(expr, i)
  ELSE LET op == IF TokAt(tokens, i).value = "*" THEN "MUL" ELSE "DIV"
           operand(b) ==
             IF b.err # "" THEN b
             ELSE mul_div_loop(tokens, b.i,
                               IF expr = NoExpr THEN b.e ELSE Operate(expr, op, b.e))
       IN operand(parse_unary(tokens, IF expr = NoExpr THEN i ELSE i + 1))

parse_unary(tokens, i) ==
  IF is_next(tokens, i, "-") \/ is_next(tokens, i, "~")
  THEN LET operand(a) ==
             IF a.err # "" THEN a
             ELSE Parsed(IF is_next(tokens, i, "-") THEN Neg(a.e) ELSE NotOp(a.e), a.i)
       IN operand(parse_unary(tokens, i + 1))
  ELSE parse_primary(tokens, i)

parse_primary(tokens, i) ==
  LET token == TokAt(tokens, i)
      closing(a) ==
        IF a.err # "" THEN a
        ELSE IF TokAt(tokens, a.i).type = "EOF"
        THEN ParseError("Expected ')' but found end of file", a.i)
        ELSE IF TokAt(tokens, a.i).value = ")" THEN Parsed(a.e, a.i + 1)
        ELSE ParseError("Expected ')'", a.i)
  IN IF token.type \in {"DEC", "HEX", "BIN"} THEN Parsed(Const(token.num), i + 1)
     ELSE IF token.type = "WORD" THEN Parsed(Identifier(token.value), i + 1)
     ELSE IF is_next(tokens, i, "(") THEN closing(parse_expression(tokens, i + 1))
     ELSE ParseError("Unexpected token in expression", i)

(***************************************************************************)
(* str(expression), as the macro descriptions print it.                    *)
(***************************************************************************)
RECURSIVE ExprStr(_)
check_brace(e) == IF e.k = "op" THEN "(" \o ExprStr(e) \o ")" ELSE ExprStr(e)
ExprStr(e) ==
  CASE e.k = "const" -> ToString(e.v)
    [] e.k = "id" -> e.name
    [] e.k = "neg" -> "-" \o check_brace(e.a)
    [] e.k = "not" -> "~" \o check_brace(e.a)
    [] e.k = "op" ->
         check_brace(e.a) \o
         (CASE e.op = "OR" -> "|" [] e.op = "AND" -> "&" [] e.op = "MUL" -> "*"
            [] e.op = "ADD" -> "+" [] e.op = "XOR" -> "^" [] e.op = "DIV" -> "/"
            [] e.op = "SUB" -> "-") \o
         check_brace(e.b)

(***************************************************************************)
(* The parser and its Program while a statement is parsed: a record st     *)
(* with the fields tokens, token_index (1-based), regs_map, prog, context, *)
(* pending_label, pending_macro_desc, pending_comment, pending_addr,       *)
(* current_line_number, ib (the InstructionBuilder at work) and err (the   *)
(* exception raised, "" if none).  Once err is set nothing more happens.   *)
(***************************************************************************)
current_token(st) == TokAt(st.tokens, st.token_index)

Throw(st, m) == IF st.err # "" THEN st ELSE [st EXCEPT !.err = m]

advance(st) ==
  IF st.err # "" THEN st ELSE [st EXCEPT !.token_index = @ + 1]

consume(st, expected) ==
  IF st.err # "" THEN st
  ELSE IF current_token(st).type = "EOF"
  THEN Throw(st, "Expected '" \o expected \o "' but found end of file")
  ELSE IF current_token(st).value = expected THEN advance(st)
  ELSE Throw(st, "Expected '" \o expected \o "'")

is_eol(st) == current_token(st).type = "EOF"

\* a set_pending_label that replaces a label already pending
set_pending_label_replacing(st, label) ==
  IF st.err # "" THEN st
  ELSE [st EXCEPT !.pending_label = label]

\* PendingString.set for the label and description slots
set_pending_label(st, label) ==
  IF st.err # "" THEN st
  ELSE IF st.pending_label # None THEN Throw(st, "Two labels for the same command")
  ELSE [st EXCEPT !.pending_label = label]

set_pending_macro_description(st, description) ==
  IF st.err # "" THEN st
  ELSE IF st.pending_macro_desc # None
  THEN Throw(st, "Two descriptions for the same command")
  ELSE [st EXCEPT !.pending_macro_desc = description]

\* comment is the text already stripped
add_pending_comment(st, comment) ==
  IF st.err # "" THEN st
  ELSE IF st.pending_comment \notin {None, ""}
  THEN [st EXCEPT !.pending_comment = @ \o "\n" \o comment]
  ELSE [st EXCEPT !.pending_comment = comment]

add_pending_origin(st, addr) ==
  IF st.err # "" THEN st
  ELSE IF addr < 0 THEN Throw(st, "Origin address cannot be negative")
  ELSE [st EXCEPT !.pending_addr = addr]

set_line_number(st, line_number) ==
  IF st.err # "" THEN st ELSE [st EXCEPT !.current_line_number = line_number]

\* an add that leaves the pending macro description in its slot
add_keeping_description(st, i) ==
  IF st.err # "" THEN st
  ELSE [st EXCEPT
          !.prog = Append(@, [i EXCEPT
                     !.label = st.pending_label,
                     !.macro_description = st.pending_macro_desc,
                     !.comment = st.pending_comment,
                     !.abs_addr = IF st.pending_addr >= 0 THEN st.pending_addr ELSE @,
                     !.line_number = st.current_line_number]),
          !.pending_label = None,
          !.pending_comment = None,
          !.pending_addr = -1,
          !.current_line_number = 0]

\* an add that leaves the pending origin in its slot
add_keeping_origin(st, i) ==
  IF st.err # "" THEN st
  ELSE [st EXCEPT
          !.prog = Append(@, [i EXCEPT
                     !.label = st.pending_label,
                     !.macro_description = st.pending_macro_desc,
                     !.comment = st.pending_comment,
                     !.abs_addr = IF st.pending_addr >= 0 THEN st.pending_addr ELSE @,
                     !.line_number = st.current_line_number]),
          !.pending_label = None,
          !.pending_macro_desc = None,
          !.pending_comment = None,
          !.current_line_number = 0]

add(st, i) ==
  IF st.err # "" THEN st
  ELSE [st EXCEPT
          !.prog = Append(@, [i EXCEPT
                     !.label = st.pending_label,
                     !.macro_description = st.pending_macro_desc,
                     !.comment = st.pending_comment,
                     !.abs_addr = IF st.pending_addr >= 0 THEN st.pending_addr ELSE @,
                     !.line_number = st.current_line_number]),
          !.pending_label = None,
          !.pending_macro_desc = None,
          !.pending_comment = None,
          !.pending_addr = -1,
          !.current_line_number = 0]

attach_same_line_comment_to_last(st, comment) ==
  IF st.err # "" THEN st
  ELSE IF st.prog = <<>> THEN add_pending_comment(st, comment)
  ELSE [st EXCEPT !.prog[Len(st.prog)].comment =
          IF @ \notin {None, ""} THEN @ \o "\n" \o comment ELSE comment]

RECURSIVE check_and_attach_comment(_, _)
check_and_attach_comment(st, processed_line) ==
  IF st.err = "" /\ current_token(st).type = "COMMENT"
     /\ current_token(st).line = processed_line
  THEN check_and_attach_comment(
         advance(attach_same_line_comment_to_last(st, current_token(st).stripped)),
         processed_line)
  ELSE st

(***************************************************************************)
(* InstructionBuilder: [opcode, arguments, source, dest, constant]; -1 and *)
(* NoExpr stand for a slot not set.                                        *)
(***************************************************************************)
arguments(opcode) == MNEMONIC_ARG_LOOKUP[Opcode[opcode].args]

\* the field arguments is opcode.arguments, looked up once
InstructionBuilder(opcode) ==
  [opcode |-> opcode, arguments |-> arguments(opcode),
   source |-> -1, dest |-> -1, constant |-> NoExpr]

set_source(st, source) ==
  IF st.err # "" THEN st
  ELSE IF ~ st.ib.arguments.has_source THEN Throw(st, "needs no source register!")
  ELSE IF st.ib.source # -1 THEN Throw(st, "source set twice!")
  ELSE [st EXCEPT !.ib.source = source]

set_dest(st, dest) ==
  IF st.err # "" THEN st
  ELSE IF ~ st.ib.arguments.has_dest THEN Throw(st, "needs no destination register!")
  ELSE IF st.ib.dest # -1 THEN Throw(st, "destination set twice!")
  ELSE [st EXCEPT !.ib.dest = dest]

set_constant(st, constant) ==
  IF st.err # "" THEN st
  ELSE IF ~ st.ib.arguments.has_const THEN Throw(st, "needs no constant!")
  ELSE IF st.ib.constant # NoExpr THEN Throw(st, "constant set twice!")
  ELSE [st EXCEPT !.ib.constant = constant]

neg_constant(st) ==
  IF st.err # "" THEN st
  ELSE IF st.ib.constant = NoExpr THEN Throw(st, "Cannot negate non-existent constant")
  ELSE [st EXCEPT !.ib.constant = Neg(@)]

\* build() followed by Program.add
add_build(st) ==
  LET args == st.ib.arguments
  IN IF st.err # "" THEN st
     ELSE IF args.has_source /\ st.ib.source = -1 THEN Throw(st, "needs a source register!")
     ELSE IF args.has_dest /\ st.ib.dest = -1 THEN Throw(st, "needs a destination register!")
     ELSE IF args.has_const /\ st.ib.constant = NoExpr THEN Throw(st, "needs a constant!")
     ELSE add(st, Instruction(st.ib.opcode,
                              IF st.ib.dest # -1 THEN st.ib.dest ELSE Register["R0"],
                              IF st.ib.source # -1 THEN st.ib.source ELSE Register["R0"],
                              st.ib.constant))

(***************************************************************************)
(* Parsing helpers: a register, a word, an expression into the builder.    *)
(***************************************************************************)
\* parse_reg yields [st, reg]
parse_reg(st) ==
  LET token == current_token(st)
  IN IF st.err # "" THEN [st |-> st, reg |-> 0]
     ELSE IF token.type # "WORD"
     THEN [st |-> Throw(st, "Expected register name"), reg |-> 0]
     ELSE IF token.upper \in DOMAIN Register
     THEN [st |-> advance(st), reg |-> Register[token.upper]]
     ELSE IF token.value \in DOMAIN st.regs_map
     THEN [st |-> advance(st), reg |-> st.regs_map[token.value]]
     ELSE [st |-> Throw(st, "Expected a register name"), reg |-> 0]

\* parse_word yields [st, val]
parse_word(st) ==
  IF st.err # "" THEN [st |-> st, val |-> ""]
  ELSE IF current_token(st).type # "WORD"
  THEN [st |-> Throw(st, "Expected identifier/word"), val |-> ""]
  ELSE [st |-> advance(st), val |-> current_token(st).value]

\* parse_expression on the parser's own position, yields [st, e]
parse_expr(st) ==
  LET parsed_to(r) ==
        [st |-> [st EXCEPT !.token_index = r.i, !.err = r.err], e |-> r.e]
  IN IF st.err # "" THEN [st |-> st, e |-> NoExpr]
     ELSE parsed_to(parse_expression(st.tokens, st.token_index))

(***************************************************************************)
(* The Program's RAM cursor and data: st also has the fields ram_pos,      *)
(* von_neumann and data_map (value -> the RAM addresses recorded for it,   *)
(* in the order recorded).  _ram_start_address is written by set_ram_start *)
(* and never read; it is not kept.                                         *)
(***************************************************************************)
\* ord(c) of a printable ASCII character (the grave accent, 96, left out)
Ord(c) ==
  LET Ascii ==
        << " ", "!", "\"", "#", "$", "%", "&", "'", "(", ")", "*", "+", ",",
           "-", ".", "/", "0", "1", "2", "3", "4", "5", "6", "7", "8", "9",
           ":", ";", "<", "=", ">", "?", "@", "A", "B", "C", "D", "E", "F",
           "G", "H", "I", "J", "K", "L", "M", "N", "O", "P", "Q", "R", "S",
           "T", "U", "V", "W", "X", "Y", "Z", "[", "\\", "]", "^", "_", "",
           "a", "b", "c", "d", "e", "f", "g", "h", "i", "j", "k", "l", "m",
           "n", "o", "p", "q", "r", "s", "t", "u", "v", "w", "x", "y", "z",
           "{", "|", "}", "~" >>
  IN 31 + Pos(Ascii, c)

\* an add_data_instruction that leaves the pending label in its slot
add_data_instruction_keeping_label(st, value) ==
  IF st.err # "" THEN st
  ELSE IF ~ st.von_neumann
  THEN Throw(st, ".data only allowed in Von Neumann mode (after .dorg)")
  ELSE [st EXCEPT
          !.prog = Append(@, [DataInstruction(value, st.current_line_number,
                                              st.pending_label)
                                EXCEPT !.abs_addr = IF st.pending_addr >= 0
                                                    THEN st.pending_addr ELSE @]),
          !.pending_macro_desc = None,
          !.pending_addr = -1,
          !.current_line_number = 0]

add_data_instruction(st, value) ==
  IF st.err # "" THEN st
  ELSE IF ~ st.von_neumann
  THEN Throw(st, ".data only allowed in Von Neumann mode (after .dorg)")
  ELSE [st EXCEPT
          !.prog = Append(@, [DataInstruction(value, st.current_line_number,
                                              st.pending_label)
                                EXCEPT !.abs_addr = IF st.pending_addr >= 0
                                                    THEN st.pending_addr ELSE @]),
          !.pending_label = None,
          !.pending_macro_desc = None,
          !.pending_addr = -1,
          !.current_line_number = 0]

add_ram(st, ident, n) ==
  LET bind(s, name) ==
        LET added(a) ==
              IF a.err # "" THEN Throw(s, a.err)
              ELSE [s EXCEPT !.context = a.context]
        IN IF s.err # "" THEN s
           ELSE added(add_identifier(s.context, name, s.ram_pos))
      reserve(s) ==
        IF s.err # "" THEN s
        ELSE [s EXCEPT !.pending_macro_desc = None, !.pending_comment = None,
                       !.ram_pos = @ + n]
      labelled(label, s) ==
        IF label \notin {None, ""} /\ label # ident
        THEN reserve(IF Lower(label) # Lower(ident)
                     THEN bind(bind(s, label), ident)
                     ELSE bind(s, label))
        ELSE reserve(bind(s, ident))
  IN IF st.err # "" THEN st
     ELSE IF st.von_neumann
     THEN Throw(st, "Cannot use .word/.long/.words in Von Neumann mode after .dorg")
     ELSE labelled(st.pending_label, [st EXCEPT !.pending_label = None])

add_data(st, value) ==
  LET record(s) ==
        IF s.err # "" THEN s
        ELSE [s EXCEPT
                !.data_map = (value :> Append(IF value \in DOMAIN @ THEN @[value]
                                              ELSE <<>>, s.ram_pos)) @@ @,
                !.ram_pos = @ + 1]
  IN IF st.err # "" THEN st
     ELSE IF st.von_neumann THEN add_data_instruction(st, value)
     ELSE record(IF st.pending_label \notin {None, ""}
                 THEN add_ram([st EXCEPT !.pending_label = None],
                              st.pending_label, 0)
                 ELSE [st EXCEPT !.pending_label = None])

add_data_label(st, ident) ==
  IF st.err # "" THEN st
  ELSE IF st.von_neumann THEN set_pending_label(st, ident)
  ELSE add_ram(st, ident, 0)

set_ram_start(st, ram_start) ==
  IF st.err # "" THEN st
  ELSE IF ram_start < 0 THEN Throw(st, "RAM start address cannot be negative")
  ELSE IF st.ram_pos # 0 \/ DOMAIN st.data_map # {}
  THEN Throw(st, ".dorg must be used before any .word, .long, .data directives")
  ELSE [st EXCEPT !.ram_pos = ram_start, !.von_neumann = TRUE]

\* the generation of the code that loads the Harvard data: it adds nothing
append_harvard_data(p, data_map) == p

(***************************************************************************)
(* MnemonicArguments.parse: each shape of MNEMONIC_ARG_LOOKUP as the       *)
(* sequence of steps its Comma, Brace and Plus nodes perform.              *)
(***************************************************************************)
ArgumentSteps ==
  ("NOTHING" :> <<>>) @@
  ("SOURCE" :> <<"Source">>) @@
  ("DEST" :> <<"Dest">>) @@
  ("CONST" :> <<"Const">>) @@
  ("DEST_SOURCE" :> <<"Dest", ",", "Source">>) @@
  ("DEST_CONST" :> <<"Dest", ",", "Const">>) @@
  ("BDEST_SOURCE" :> <<"[", "Dest", "]", ",", "Source">>) @@
  ("DEST_BSOURCE" :> <<"Dest", ",", "[", "Source", "]">>) @@
  ("CONST_SOURCE" :> <<"Const", ",", "Source">>) @@
  ("BDEST_BCONST_SOURCE" :> <<"[", "Dest", "Plus", "]", ",", "Source">>) @@
  ("DEST_BSOURCE_BCONST" :> <<"Dest", ",", "[", "Source", "Plus", "]">>)

ParseSource(st) == LET set(r) == set_source(r.st, r.reg) IN set(parse_reg(st))
ParseDest(st) == LET set(r) == set_dest(r.st, r.reg) IN set(parse_reg(st))
ParseConst(st) == LET set(r) == set_constant(r.st, r.e) IN set(parse_expr(st))

\* Plus.parse after the register part
ParsePlus(st) ==
  IF st.err # "" THEN st
  ELSE IF is_next(st.tokens, st.token_index, "-")
          \/ is_next(st.tokens, st.token_index, "+")
  THEN LET negate(s) ==
             IF is_next(st.tokens, st.token_index, "-") THEN neg_constant(s) ELSE s
       IN negate(ParseConst(advance(st)))
  ELSE Throw(st, "Expected '+' or '-' after register in address expression")

RECURSIVE ParseArguments(_, _)
ParseArguments(st, steps) ==
  IF steps = <<>> \/ st.err # "" THEN st
  ELSE LET s == Head(steps)
       IN ParseArguments(
            CASE s = "Source" -> ParseSource(st)
              [] s = "Dest" -> ParseDest(st)
              [] s = "Const" -> ParseConst(st)
              [] s = "Plus" -> ParsePlus(st)
              [] OTHER -> consume(st, s),
            Tail(steps))

parse_instruction(st, opcode) ==
  add_build(ParseArguments([st EXCEPT !.ib = InstructionBuilder(opcode)],
                           ArgumentSteps[Opcode[opcode].args]))

(***************************************************************************)
(* Macros.  Build is InstructionBuilder(opcode) with the given slots set,  *)
(* built and added to the Program; -1 and NoExpr leave a slot unset.       *)
(***************************************************************************)
Build(st, opcode, dest, source, constant) ==
  LET with_dest(s) == IF dest # -1 THEN set_dest(s, dest) ELSE s
      with_source(s) == IF source # -1 THEN set_source(s, source) ELSE s
      with_constant(s) == IF constant # NoExpr THEN set_constant(s, constant) ELSE s
  IN add_build(with_constant(with_source(with_dest(
       IF st.err # "" THEN st ELSE [st EXCEPT !.ib = InstructionBuilder(opcode)]))))

BP == Register["BP"]
SP == Register["SP"]
RA == Register["RA"]
R0 == Register["R0"]

push_instruction(st, reg) ==
  Build(Build(st, "SUBIs", SP, -1, Const(1)), "ST", SP, reg, NoExpr)

pop_instruction(st, reg) ==
  Build(Build(st, "LD", reg, SP, NoExpr), "ADDIs", SP, -1, Const(1))

Inc(st) ==
  LET expand(r) ==
        Build(set_pending_macro_description(r.st, "INC " \o RegName(r.reg)),
              "ADDIs", r.reg, -1, Const(1))
  IN expand(parse_reg(st))

Dec(st) ==
  LET expand(r) ==
        Build(set_pending_macro_description(r.st, "DEC " \o RegName(r.reg)),
              "SUBIs", r.reg, -1, Const(1))
  IN expand(parse_reg(st))

Push(st) ==
  LET expand(r) ==
        push_instruction(
          set_pending_macro_description(r.st, "PUSH " \o RegName(r.reg)), r.reg)
  IN expand(parse_reg(st))

Pop(st) ==
  LET expand(r) ==
        pop_instruction(
          set_pending_macro_description(r.st, "POP " \o RegName(r.reg)), r.reg)
  IN expand(parse_reg(st))

Call(st) ==
  LET expand(r) ==
        IF r.st.err # "" THEN r.st
        ELSE Build(
               Build(
                 Build(
                   Build(set_pending_macro_description(r.st, "CALL " \o ExprStr(r.e)),
                         "SUBIs", SP, -1, Const(1)),
                   "LDI", RA, -1, Identifier("_SKIP2_ADDR_")),
                 "ST", SP, RA, NoExpr),
               "JMP", -1, -1, r.e)
  IN expand(parse_expr(st))

SCall(st) ==
  LET expand(r) ==
        IF r.st.err # "" THEN r.st
        ELSE pop_instruction(
               Build(
                 push_instruction(
                   set_pending_macro_description(r.st, "_SCALL " \o ExprStr(r.e)), RA),
                 "RCALL", RA, -1, r.e),
               RA)
  IN expand(parse_expr(st))

Ret(st) ==
  LET expand(r) ==
        IF r.st.err # "" THEN r.st
        ELSE Build(
               Build(
                 Build(set_pending_macro_description(r.st, "RET " \o ExprStr(r.e)),
                       "LD", RA, SP, NoExpr),
                 "ADDI", SP, -1, Operate(r.e, "ADD", Const(1))),
               "RRET", -1, RA, NoExpr)
  IN IF ~ is_eol(st) THEN expand(parse_expr(st))
     ELSE Build(pop_instruction(set_pending_macro_description(st, "RET"), RA),
                "RRET", -1, RA, NoExpr)

\* variant: the SUBI is left out whenever the size evaluates to 0
Enter_zero_valued(st) ==
  LET expand(r) ==
        LET reserve(s) ==
              IF get_value(r.e, NewContext) # Val(0)
              THEN Build(s, "SUBI", SP, -1, r.e) ELSE s
        IN IF r.st.err # "" THEN r.st
           ELSE reserve(
                  Build(
                    push_instruction(
                      set_pending_macro_description(r.st, "ENTER " \o ExprStr(r.e)), BP),
                    "MOV", BP, SP, NoExpr))
  IN expand(parse_expr(st))

Enter(st) ==
  LET expand(r) ==
        LET reserve(s) ==
              IF ~ (r.e.k = "const" /\ r.e.v = 0)
              THEN Build(s, "SUBI", SP, -1, r.e) ELSE s
        IN IF r.st.err # "" THEN r.st
           ELSE reserve(
                  Build(
                    push_instruction(
                      set_pending_macro_description(r.st, "ENTER " \o ExprStr(r.e)), BP),
                    "MOV", BP, SP, NoExpr))
  IN expand(parse_expr(st))

Leave(st) ==
  pop_instruction(
    Build(set_pending_macro_description(st, "LEAVE"), "MOV", SP, BP, NoExpr), BP)

EnterISR(st) ==
  Build(
    Build(
      Build(
        Build(set_pending_macro_description(st, "ENTERI"),
              "STD", SP, R0, Const(-1)),
        "IN", R0, -1, Const(0)),
      "STD", SP, R0, Const(-2)),
    "SUBIs", SP, -1, Const(2))

LeaveISR(st) ==
  Build(
    Build(
      Build(
        Build(set_pending_macro_description(st, "LEAVEI"),
              "ADDIs", SP, -1, Const(2)),
        "LDD", R0, SP, Const(-2)),
      "OUT", -1, R0, Const(0)),
    "LDD", R0, SP, Const(-1))

\* Parser.MACROS keyed by the lower-case macro name
MACROS ==
  {"inc", "dec", "push", "pop", "_scall", "ret", "call", "enter", "leave",
   "enteri", "leavei"}

parse_macro(st, name) ==
  CASE name = "inc" -> Inc(st)
    [] name = "dec" -> Dec(st)
    [] name = "push" -> Push(st)
    [] name = "pop" -> Pop(st)
    [] name = "_scall" -> SCall(st)
    [] name = "ret" -> Ret(st)
    [] name = "call" -> Call(st)
    [] name = "enter" -> Enter(st)
    [] name = "leave" -> Leave(st)
    [] name = "enteri" -> EnterISR(st)
    [] name = "leavei" -> LeaveISR(st)

(***************************************************************************)
(* Directives.  .reg, .org and .const are modelled; .word, .long, .words,  *)
(* .dorg, .data and .include are known to the parser but do not occur in   *)
(* the source lines above.                                                 *)
(***************************************************************************)
DIRECTIVES ==
  {".reg", ".word", ".long", ".words", ".org", ".dorg", ".data", ".const",
   ".include"}

DReg(st) ==
  LET named(w) ==
        LET bound(r) ==
              LET map(s) ==
                    IF s.err # "" THEN s
                    ELSE [s EXCEPT !.regs_map = (w.val :> r.reg) @@ @]
              IN map(add_pending_comment(r.st, RegName(r.reg)))
        IN bound(parse_reg(add_pending_comment(w.st, w.val)))
  IN named(parse_word(st))

DOrg(st) ==
  LET parsed_addr(r) ==
        LET origin(addr) ==
              IF addr.err # ""
              THEN Throw(r.st, "Could not evaluate address for .org")
              ELSE IF addr.v < 0 THEN add_pending_origin(r.st, addr.v)
              ELSE add_pending_comment(add_pending_origin(r.st, addr.v),
                                       "0x" \o Hex(addr.v))
        IN IF r.st.err # "" THEN r.st ELSE origin(get_value(r.e, r.st.context))
  IN parsed_addr(parse_expr(st))

DConst(st) ==
  LET named(w) ==
        LET parsed_value(r) ==
              LET define(value) ==
                    LET commented(s) ==
                          LET add_to(added) ==
                                IF added.err # ""
                                THEN Throw(s, "Could not evaluate value for .const")
                                ELSE [s EXCEPT !.context = added.context]
                          IN add_to(add_identifier(s.context, w.val, value.v))
                    IN IF value.err # ""
                       THEN Throw(r.st, "Could not evaluate value for .const")
                       ELSE commented(add_pending_comment(
                              r.st, w.val \o " " \o ToString(value.v)))
              IN IF r.st.err # "" THEN r.st
                 ELSE define(get_value(r.e, r.st.context))
        IN parsed_value(parse_expr(w.st))
  IN named(parse_word(st))

DWord(st) ==
  LET named(w) == add_ram(add_pending_comment(w.st, w.val), w.val, 1)
  IN named(parse_word(st))

\* a .long that reserves a single word
DLong_one_word(st) ==
  LET named(w) == add_ram(add_pending_comment(w.st, w.val), w.val, 1)
  IN named(parse_word(st))

DLong(st) ==
  LET named(w) == add_ram(add_pending_comment(w.st, w.val), w.val, 2)
  IN named(parse_word(st))

DWords(st) ==
  LET named(w) ==
        LET parsed_size(r) ==
              LET sized(n) ==
                    IF n.err # ""
                    THEN Throw(r.st, "Could not evaluate size for .words")
                    ELSE IF n.v < 0
                    THEN Throw(r.st, "Size for .words must be non-negative")
                    ELSE add_ram(
                           add_pending_comment(
                             r.st, w.val \o " " \o ToString(n.v)),
                           w.val, n.v)
              IN IF r.st.err # "" THEN r.st
                 ELSE sized(get_value(r.e, r.st.context))
        IN parsed_size(parse_expr(w.st))
  IN named(parse_word(st))

DDOrg(st) ==
  LET parsed_addr(r) ==
        LET started(addr) ==
              LET commented(s) ==
                    IF s.err = "" THEN add_pending_comment(s, "0x" \o Hex(addr.v))
                    ELSE IF addr.v < 0 THEN s
                    ELSE [s EXCEPT !.err = "Could not evaluate address for .dorg"]
              IN IF addr.err # ""
                 THEN Throw(r.st, "Could not evaluate address for .dorg")
                 ELSE commented(set_ram_start(r.st, addr.v))
        IN IF r.st.err # "" THEN r.st ELSE started(get_value(r.e, r.st.context))
  IN parsed_addr(parse_expr(st))

\* Parser._read_data_value
read_data_value(st) ==
  LET RECURSIVE add_chars(_, _, _)
      add_chars(s, text, k) ==
        IF k > Len(text) THEN s
        ELSE add_chars(add_data(s, Ord(text[k])), text, k + 1)
      string(token) ==
        advance(add_chars(
          add_pending_comment(st, "\"" \o token.value \o "\""), token.chars, 1))
      number(r) ==
        LET valued(value) ==
              LET stored(s) ==
                    IF s.err # ""
                    THEN [s EXCEPT !.err = "Could not evaluate .data value"]
                    ELSE s
              IN IF value.err # ""
                 THEN Throw(r.st, "Could not evaluate .data value")
                 ELSE stored(add_data(
                        add_pending_comment(r.st, ToString(value.v)), value.v))
        IN IF r.st.err # "" THEN r.st ELSE valued(get_value(r.e, r.st.context))
  IN IF st.err # "" THEN st
     ELSE IF current_token(st).type = "STRING" THEN string(current_token(st))
     ELSE number(parse_expr(st))

DData(st) ==
  LET RECURSIVE more_values(_)
      more_values(s) ==
        IF s.err = "" /\ is_next(s.tokens, s.token_index, ",")
        THEN more_values(read_data_value(add_pending_comment(advance(s), ",")))
        ELSE s
      named(w) ==
        more_values(
          read_data_value(add_data_label(add_pending_comment(w.st, w.val), w.val)))
  IN named(parse_word(st))

do_work(st, directive) ==
  CASE directive = ".reg" -> DReg(st)
    [] directive = ".org" -> DOrg(st)
    [] directive = ".const" -> DConst(st)
    [] directive = ".word" -> DWord(st)
    [] directive = ".long" -> DLong(st)
    [] directive = ".words" -> DWords(st)
    [] directive = ".dorg" -> DDOrg(st)
    [] directive = ".data" -> DData(st)

(***************************************************************************)
(* One iteration of the loop of parse_program.                             *)
(***************************************************************************)
parse_statement(st) ==
  LET token == current_token(st)
      s0 == set_line_number(st, token.line)
  IN CASE token.type = "LABELDEF" ->
            check_and_attach_comment(
              advance(set_pending_label(s0, token.value)), token.line)
       [] token.type = "DOTCMD" ->
            IF token.lower \notin DIRECTIVES THEN Throw(s0, "Unknown directive")
            ELSE check_and_attach_comment(
                   do_work(advance(add_pending_comment(s0, token.value)), token.lower),
                   token.line)
       [] token.type = "COMMENT" ->
            advance(add_pending_comment(s0, token.stripped))
       [] token.type = "WORD" ->
            IF token.upper \in DOMAIN Opcode
            THEN check_and_attach_comment(
                   parse_instruction(advance(s0), token.upper), token.line)
            ELSE IF token.lower \in MACROS
            THEN check_and_attach_comment(
                   parse_macro(advance(s0), token.lower), token.line)
            ELSE Throw(s0, "Unexpected identifier")
       [] OTHER -> Throw(s0, "Unexpected token")

(***************************************************************************)
(* State.                                                                  *)
(*   prog, context, addr_to_line_map   Program._prog, _context, map        *)
(*   parsed        the program as the parser left it (history)             *)
(*   pc            position in the pipeline                                *)
(*   err           the exception that ended the run, "" if none            *)
(*   jmp_optimized was_optimized of the last OptimizerJmp                  *)
(*   iterations    completed iterations of the jump loop                   *)
(*   hex, out      the HexFormatter and the lines it printed               *)
(*   instr, mc     an instruction being encoded and the listener's words   *)
(*   code, tokens, token_index, regs_map          the Parser               *)
(*   pending_label, pending_macro_desc, pending_comment, pending_addr,     *)
(*   current_line_number                          the Program's latches    *)
(*   ram_pos, von_neumann, data_map   the Program's RAM cursor, its mode   *)
(*                 flag and the Harvard data map                           *)
(*   stmt          the statement parse_program handled last: the index of  *)
(*                 its first token and the program's length before it      *)
(*                 (history)                                               *)
(*   calls         the calls made on a Program that is driven directly      *)
(*   expression, result  an Expression and what get_value returned for it  *)
(***************************************************************************)
VARIABLES prog, context, addr_to_line_map, parsed, pc, err, jmp_optimized,
          iterations, hex, out, instr, mc,
          code, tokens, token_index, regs_map,
          pending_label, pending_macro_desc, pending_comment, pending_addr,
          current_line_number, ram_pos, von_neumann, data_map, stmt, calls,
          expression, result

parserVars == <<code, tokens, token_index, regs_map,
                pending_label, pending_macro_desc, pending_comment, pending_addr,
                current_line_number, ram_pos, von_neumann, data_map, stmt,
                calls>>

exprVars == <<expression, result>>

vars == <<prog, context, addr_to_line_map, parsed, pc, err, jmp_optimized,
          iterations, hex, out, instr, mc, parserVars, exprVars>>

\* no Expression was evaluated on its own
NoEvaluation ==
  /\ expression = NoExpr
  /\ result = Val(0)

\* a Program that was built without a Parser, or after parsing ended
NoParser ==
  /\ code = <<>>
  /\ tokens = <<Token("EOF", <<>>, 1)>>
  /\ token_index = 1
  /\ regs_map = <<>>
  /\ pending_label = None
  /\ pending_macro_desc = None
  /\ pending_comment = None
  /\ pending_addr = -1
  /\ current_line_number = 0
  /\ ram_pos = 0
  /\ von_neumann = FALSE
  /\ data_map = <<>>
  /\ stmt = [at |-> 0, n0 |-> 0]
  /\ calls = 0

(***************************************************************************)
(* Bounds.                                                                 *)
(***************************************************************************)
MaxItems == 3

(***************************************************************************)
(* The items the linker specification builds its programs from, as the     *)
(* parser would leave them.                                                *)
(***************************************************************************)
WithLabel(i, l) == [i EXCEPT !.label = l]
WithOrigin(i, a) == [i EXCEPT !.abs_addr = a]

LinkItems ==
  { Instruction("NOP", 0, 0, NoExpr),
    WithLabel(Instruction("NOP", 0, 0, NoExpr), "a"),
    WithLabel(Instruction("NOP", 0, 0, NoExpr), "_ADDR_"),
    Instruction("JMP", 0, 0, Identifier("a")),
    Instruction("JMP", 0, 0, Operate(Identifier("a"), "ADD", Const(125))),
    Instruction("JMP", 0, 0, Const(130)),
    WithLabel(Instruction("JMP", 0, 0, Identifier("b")), "b"),
    Instruction("LDI", 1, 0, Const(5)),
    WithOrigin(Instruction("NOP", 0, 0, NoExpr), 4) }

LinkPrograms == SeqsUpTo(LinkItems, MaxItems)

InitLink ==
  /\ prog \in LinkPrograms
  /\ parsed = prog
  /\ context = NewContext
  /\ addr_to_line_map = <<>>
  /\ pc = "link"
  /\ err = ""
  /\ jmp_optimized = FALSE
  /\ iterations = 0
  /\ hex = NewVisitor
  /\ out = <<>>
  /\ instr = Instruction("NOP", 0, 0, NoExpr)
  /\ mc = <<>>
  /\ NoParser
  /\ NoEvaluation

(***************************************************************************)
(* Program.optimize_and_link, one action per traversal.                    *)
(***************************************************************************)
Pass(V, next) ==
  LET done(t) ==
        /\ prog' = t.prog
        /\ context' = t.context
        /\ addr_to_line_map' = t.map
        /\ err' = t.err
        /\ pc' = IF t.err # "" THEN "failed" ELSE next
  IN done(traverse(V, prog, context, NewVisitor))

\* the start of optimize_and_link: the Harvard data, then the first traversal
LinkAddPass ==
  /\ pc = "link"
  /\ LET done(t) ==
           /\ prog' = t.prog
           /\ context' = t.context
           /\ addr_to_line_map' = t.map
           /\ err' = t.err
           /\ pc' = IF t.err # "" THEN "failed" ELSE "short"
     IN done(traverse("LinkAdd",
                      IF von_neumann THEN prog
                      ELSE append_harvard_data(prog, data_map),
                      context, NewVisitor))
  /\ UNCHANGED <<parsed, jmp_optimized, iterations, hex, out, instr, mc,
                 parserVars, exprVars>>

ShortPass ==
  /\ pc = "short"
  /\ Pass("Short", "loop_set")
  /\ UNCHANGED <<parsed, jmp_optimized, iterations, hex, out, instr, mc,
                 parserVars, exprVars>>

LoopLinkSet ==
  /\ pc = "loop_set"
  /\ Pass("LinkSet", "loop_jmp")
  /\ UNCHANGED <<parsed, jmp_optimized, iterations, hex, out, instr, mc,
                 parserVars, exprVars>>

LoopJmp ==
  /\ pc = "loop_jmp"
  /\ LET done(t) ==
           /\ prog' = t.prog
           /\ context' = t.context
           /\ addr_to_line_map' = t.map
           /\ err' = t.err
           /\ jmp_optimized' = t.vs.optimized
           /\ pc' = IF t.err # "" THEN "failed"
                    ELSE IF t.vs.optimized THEN "loop_set" ELSE "final"
     IN done(traverse("Jmp", prog, context, NewVisitor))
  /\ iterations' = iterations + 1
  /\ UNCHANGED <<parsed, hex, out, instr, mc, parserVars, exprVars>>

FinalLinkSet ==
  /\ pc = "final"
  /\ Pass("LinkSet", "linked")
  /\ UNCHANGED <<parsed, jmp_optimized, iterations, hex, out, instr, mc,
                 parserVars, exprVars>>

(***************************************************************************)
(* Emission: prog.traverse(HexFormatter) followed by finalize().           *)
(***************************************************************************)
EmitHex ==
  /\ pc = "linked"
  /\ LET done(t) ==
           /\ prog' = t.prog
           /\ context' = t.context
           /\ addr_to_line_map' = t.map
           /\ err' = t.err
           /\ hex' = t.vs
           /\ out' = IF t.err # "" THEN <<>> ELSE finalize(t.vs)
           /\ pc' = IF t.err # "" THEN "emit_failed" ELSE "emitted"
     IN done(traverse("Hex", prog, context, NewVisitor))
  /\ UNCHANGED <<parsed, jmp_optimized, iterations, instr, mc, parserVars, exprVars>>

NextLink ==
  \/ LinkAddPass
  \/ ShortPass
  \/ LoopLinkSet
  \/ LoopJmp
  \/ FinalLinkSet
  \/ EmitHex

SpecLink == InitLink /\ [][NextLink]_vars

(***************************************************************************)
(* Properties of optimize_and_link and of emission (SpecLink).             *)
(***************************************************************************)
InRange(x, lo, hi) == lo <= x /\ x <= hi

\* A traversal that follows the current state, as emission would run it.
Following == traverse("LinkSet", prog, context, NewVisitor)

\* C1: every JMP rewritten to JMPs by the jump pass still fits at emission:
\* emitting a program whose jumps were all written as long JMP never fails
\* with 'branch target out of range'.
C1_ShortJumpsStillFit ==
  pc = "emit_failed" => err # "branch target out of range"

\* C2: after optimize_and_link returns without error, every label's value in
\* the Context equals the address at which a following traversal places the
\* item bearing it.
C2_LabelsAtItemAddress ==
  pc = "linked" =>
    \A idx \in 1..Len(prog) :
      prog[idx].label # None =>
        /\ ContextGet(context, prog[idx].label).err = ""
        /\ ContextGet(context, prog[idx].label).v = Following.place[idx]

\* C3: when optimize_and_link returns, no instruction is left as a long JMP
\* whose target evaluates and whose offset target - address - 1, at the final
\* addresses and label values, lies in -128..127; the program `b: jmp b`
\* ends as a single JMPs whose constant evaluates to 0.
C3_NoFittingLongJmpLeft ==
  pc = "linked" =>
    /\ \A idx \in 1..Len(prog) :
         (prog[idx].kind = "instr" /\ prog[idx].opcode = "JMP") =>
           LET r == get_value(prog[idx].constant, Following.ctxs[idx])
           IN ~ (r.err = "" /\ InRange(r.v - Following.place[idx] - 1, -128, 127))
    /\ (Len(parsed) = 1 /\ parsed[1].opcode = "JMP" /\ parsed[1].label = "b"
        /\ parsed[1].constant = Identifier("b")) =>
         /\ Len(prog) = 1
         /\ prog[1].opcode = "JMPs"
         /\ get_value(prog[1].constant, context) = Val(0)

C3_Witness ==
  /\ pc = "linked"
  /\ \E idx \in 1..Len(prog) :
       parsed[idx].opcode = "JMP" /\ prog[idx].opcode = "JMPs"
  /\ \E idx \in 1..Len(prog) :
       prog[idx].opcode = "JMP"
       /\ get_value(prog[idx].constant, Following.ctxs[idx]).err = ""

\* C8: finalize prints the header and then exactly one word for every
\* address from 0 to the highest address written, in increasing order: the
\* word written there, or 0 where no item wrote; header only when empty.
SetMax(S) == CHOOSE m \in S : \A x \in S : x <= m

C8_HexImage ==
  pc = "emitted" =>
    LET written == DOMAIN hex.output_buffer
    IN /\ Len(out) >= 1 /\ out[1] = "v2.0 raw"
       /\ written = {} => Len(out) = 1
       /\ written # {} =>
            /\ Len(out) = SetMax(written) + 2
            /\ \A a \in 0..SetMax(written) :
                 out[a + 2] = IF a \in written THEN Hex(hex.output_buffer[a])
                              ELSE "0"
       /\ \A a \in written : InRange(hex.output_buffer[a], 0, 65535)

C8_Witness ==
  /\ pc = "emitted"
  /\ \E a \in DOMAIN hex.output_buffer :
       \E g \in 0..a : g \notin DOMAIN hex.output_buffer

(***************************************************************************)
(* Encoding of a single instruction (SpecEnc): Init draws the instruction, *)
(* built as InstructionBuilder.build allows, and the address; the action   *)
(* is create_machine_code with a listener that collects the words.         *)
(***************************************************************************)
Spread == 1
MaxReg == 1

EncBoundaries == {0, 15, 127, -128, 873, 1128, 16383, -16384, 32767, -32768, 65535}
EncValues == { b + d : b \in EncBoundaries, d \in (-Spread)..Spread }
EncRegs == 0..MaxReg \cup {14, 15}
EncAddrs == {0, 1000}

Built(S) ==
  { Instruction(o, d, s, c) :
      o \in S,
      d \in EncRegs,
      s \in EncRegs,
      c \in { Const(n) : n \in EncValues } \cup {NoExpr} }

\* InstructionBuilder.build: a register or constant the opcode does not take
\* is R0 or None, one it takes is present
WellBuilt(i) ==
  LET args == MNEMONIC_ARG_LOOKUP[Opcode[i.opcode].args]
  IN /\ (~ args.has_dest => i.dest_reg = 0)
     /\ (~ args.has_source => i.source_reg = 0)
     /\ (args.has_const <=> i.constant # NoExpr)

EncInstructions == { i \in Built(DOMAIN Opcode) : WellBuilt(i) }

InitEnc ==
  /\ instr \in EncInstructions
  /\ \E a \in EncAddrs : context = set_instr_addr(NewContext, a)
  /\ mc = <<>>
  /\ pc = "encode"
  /\ err = ""
  /\ prog = <<>>
  /\ parsed = <<>>
  /\ addr_to_line_map = <<>>
  /\ jmp_optimized = FALSE
  /\ iterations = 0
  /\ hex = NewVisitor
  /\ out = <<>>
  /\ NoParser
  /\ NoEvaluation

CreateMachineCode ==
  /\ pc = "encode"
  /\ LET r == create_machine_code(instr, context)
     IN /\ mc' = mc \o r.code
        /\ err' = r.err
  /\ pc' = "encoded"
  /\ UNCHANGED <<prog, context, addr_to_line_map, parsed, jmp_optimized,
                 iterations, hex, out, instr, parserVars, exprVars>>

NextEnc == CreateMachineCode

SpecEnc == InitEnc /\ [][NextEnc]_vars

\* The words of the encoding table, written with the bit operations.
Shl(x, n) == x * Pow2(n)
Bit15(c) == BitAnd(FloorDiv(c, 32768), 1)

TableWords(i, A) ==
  LET oc == Opcode[i.opcode]
      C == IF i.constant = NoExpr THEN 0 ELSE i.constant.v
      Rd == i.dest_reg
      Rs == i.source_reg
      op == Shl(oc.value, 8)
  IN CASE oc.alu_b_sel = "instrSourceAndDest" ->
            << BitOr(op, BitAnd(C - A - 1, 255)) >>
       [] oc.alu_b_sel = "instrSource" ->
            << BitOr(BitOr(op, Shl(Rd, 4)), C) >>
       [] oc.alu_b_sel = "instrDest" ->
            << BitOr(BitOr(op, Shl(C, 4)), Rs) >>
       [] oc.alu_b_sel = "ImReg" /\ oc.imm_ext_mode = "extend" ->
            << BitOr(BitAnd(C, 32767), 32768), BitOr(BitOr(op, Shl(Rd, 4)), Rs) >>
       [] oc.alu_b_sel = "ImReg" /\ oc.imm_ext_mode = "src0" ->
            << BitOr(BitAnd(C, 32767), 32768), BitOr(BitOr(op, Shl(Rd, 4)), Bit15(C)) >>
       [] oc.alu_b_sel = "ImReg" /\ oc.imm_ext_mode = "dest0" ->
            << BitOr(BitAnd(C, 32767), 32768), BitOr(BitOr(op, Shl(Bit15(C), 4)), Rs) >>
       [] OTHER -> << BitOr(BitOr(op, Shl(Rd, 4)), Rs) >>

\* C5: for every opcode and every in-range constant C at address A,
\* create_machine_code emits exactly the words of the encoding table.
C5_EncodingTable ==
  (pc = "encoded" /\ err = "") => mc = TableWords(instr, context.instr_addr)

C5_Witness ==
  /\ pc = "encoded" /\ err = ""
  /\ Opcode[instr.opcode].alu_b_sel = "ImReg"
  /\ Opcode[instr.opcode].imm_ext_mode = "dest0"
  /\ instr.constant.v >= 32768
  /\ instr.source_reg = 15
  /\ Len(mc) = 2

\* The range of the constant field of an instruction, as
\* [lo, hi, msg] on the value the field holds.
FieldRange(i, A) ==
  LET oc == Opcode[i.opcode]
  IN CASE oc.alu_b_sel = "instrSourceAndDest" ->
            [lo |-> A + 1 - 128, hi |-> A + 1 + 127, msg |-> "branch target out of range"]
       [] oc.alu_b_sel \in {"instrSource", "instrDest"} ->
            [lo |-> 0, hi |-> 15, msg |-> "short constant too large"]
       [] oc.alu_b_sel = "ImReg" /\ oc.imm_ext_mode = "extend" ->
            [lo |-> -16384, hi |-> 16383, msg |-> "displacement constant too large"]
       [] oc.alu_b_sel = "ImReg" ->
            [lo |-> -32768, hi |-> 65535, msg |-> "constant out of 16-bit range"]
       [] OTHER -> [lo |-> 0, hi |-> 0, msg |-> ""]

\* C6: encoding rejects a constant exactly when it is outside the range of
\* its field, and then emits no word; every value inside its range is
\* accepted.  At A=1000 a branch to 1128 or 873 is accepted, to 1129 or 872
\* rejected; a short immediate 15 is accepted, 16 and -1 rejected.
C6_RangeChecks ==
  pc = "encoded" =>
    LET A == context.instr_addr
        C == IF instr.constant = NoExpr THEN 0 ELSE instr.constant.v
        f == FieldRange(instr, A)
    IN /\ (err # "") <=> (C < f.lo \/ C > f.hi)
       /\ (err # "") => (mc = <<>> /\ err = f.msg)
       /\ (err = "") => Len(mc) >= 1
       /\ (instr.opcode = "JMPs" /\ A = 1000) =>
            /\ (C \in {1128, 873} => err = "")
            /\ (C \in {1129, 872} => err = "branch target out of range")
       /\ instr.opcode \in {"LDSs", "STSs"} =>
            /\ (C = 15 => err = "")
            /\ (C \in {16, -1} => err = "short constant too large")

C6_Witness ==
  /\ pc = "encoded"
  /\ instr.opcode = "JMPs"
  /\ context.instr_addr = 1000
  /\ instr.constant.v = 1129
  /\ err = "branch target out of range"

(***************************************************************************)
(* The short-form pass on its own (SpecShort): Init draws a program of one *)
(* instruction of any opcode, with or without a label; the actions are the *)
(* first two traversals of optimize_and_link.                              *)
(***************************************************************************)
MaxShortConst == 16

ShortConstants ==
  { Const(n) : n \in -1..MaxShortConst } \cup
  { Identifier("a"), Identifier("b"), Operate(Const(2), "ADD", Const(1)) }

ShortInstructions ==
  { i \in { Instruction(o, d, s, c) :
              o \in DOMAIN Opcode, d \in {0, 1}, s \in {0, 2},
              c \in ShortConstants \cup {NoExpr} } :
      LET args == MNEMONIC_ARG_LOOKUP[Opcode[i.opcode].args]
      IN /\ (args.has_dest <=> i.dest_reg = 1)
         /\ (args.has_source <=> i.source_reg = 2)
         /\ (args.has_const <=> i.constant # NoExpr) }

InitShort ==
  /\ \E i \in ShortInstructions, l \in {None, "a"} : prog = <<WithLabel(i, l)>>
  /\ parsed = prog
  /\ context = NewContext
  /\ addr_to_line_map = <<>>
  /\ pc = "link"
  /\ err = ""
  /\ jmp_optimized = FALSE
  /\ iterations = 0
  /\ hex = NewVisitor
  /\ out = <<>>
  /\ instr = Instruction("NOP", 0, 0, NoExpr)
  /\ mc = <<>>
  /\ NoParser
  /\ NoEvaluation

NextShort == LinkAddPass \/ ShortPass

SpecShort == InitShort /\ [][NextShort]_vars

\* The long/short pairs as the claim lists them, and with CPCI added.
ListedPairs ==
  ("LDI" :> "LDIs") @@ ("ADDI" :> "ADDIs") @@ ("SUBI" :> "SUBIs") @@
  ("ANDI" :> "ANDIs") @@ ("ORI" :> "ORIs") @@ ("EORI" :> "EORIs") @@
  ("CPI" :> "CPIs") @@ ("MULI" :> "MULIs") @@ ("LDS" :> "LDSs") @@
  ("STS" :> "STSs") @@ ("IN" :> "INs") @@ ("OUT" :> "OUTs") @@
  ("ADCI" :> "ADCIs") @@ ("SBCI" :> "SBCIs")

PairsWithCPCI == ("CPCI" :> "CPCIs") @@ ListedPairs

\* The short-form pass swapped exactly the instructions whose opcode is a
\* long form of pairs and whose constant evaluates to 0..15 in the context
\* of its visit, and raised nothing.
ShortPassSwaps(pairs) ==
  pc = "loop_set" =>
    /\ err = ""
    /\ Len(prog) = Len(parsed)
    /\ \A idx \in 1..Len(prog) :
         LET old == parsed[idx]
             seen == traverse("Short", parsed, context, NewVisitor).ctxs[idx]
             r == IF old.constant = NoExpr THEN Raise("none")
                  ELSE get_value(old.constant, seen)
             swap == /\ old.opcode \in DOMAIN pairs
                     /\ r.err = ""
                     /\ InRange(r.v, 0, 15)
         IN /\ prog[idx] = [old EXCEPT !.opcode = IF swap THEN pairs[old.opcode]
                                                  ELSE old.opcode]
            /\ (old.opcode = "ADDI" /\ old.dest_reg = 1
                /\ old.constant = Operate(Const(2), "ADD", Const(1)))
                 => prog[idx].opcode = "ADDIs"

\* C4 (as claimed): the pass swaps an instruction if and only if its opcode
\* is one of the 14 listed long forms and its constant evaluates to 0..15.
C4_Original == ShortPassSwaps(ListedPairs)

\* C4 (amended): the pass swaps an instruction if and only if its opcode is
\* one of the 14 listed long forms or CPCI and its constant evaluates in the
\* current Context to 0..15; every other instruction keeps its opcode, and
\* an instruction whose constant cannot be evaluated is left unchanged
\* without error.
C4_ShortPassSwaps == ShortPassSwaps(PairsWithCPCI)

C4_Witness ==
  /\ pc = "loop_set"
  /\ parsed[1].opcode = "CPCI"
  /\ prog[1].opcode = "CPCIs"

(***************************************************************************)
(* The whole assembler (SpecAsm): Init is a Parser just constructed on a   *)
(* source text, parse_program runs one statement per step, then the        *)
(* Program is linked and emitted as above.                                 *)
(***************************************************************************)
MaxPrefix == 1

RECURSIVE Join(_)
Join(lines) ==
  IF lines = <<>> THEN <<>>
  ELSE IF Len(lines) = 1 THEN lines[1]
  ELSE Head(lines) \o <<"\n">> \o Join(Tail(lines))

Sources ==
  { Join(pre) : pre \in SeqsUpTo(FrameLines, MaxPrefix) } \cup
  { Join(Append(pre, s)) : pre \in SeqsUpTo(FrameLines, MaxPrefix), s \in Statements } \cup
  { Join(<<s, f>>) : s \in Statements, f \in FollowLines }

InitAsm ==
  /\ code \in Sources
  /\ LET scanned(r) == r.err = "" /\ tokens = r.tokens
     IN scanned(tokenize(code))
  /\ token_index = 1
  /\ regs_map = <<>>
  /\ pending_label = None
  /\ pending_macro_desc = None
  /\ pending_comment = None
  /\ pending_addr = -1
  /\ current_line_number = 0
  /\ ram_pos = 0
  /\ von_neumann = FALSE
  /\ data_map = <<>>
  /\ stmt = [at |-> 0, n0 |-> 0]
  /\ calls = 0
  /\ NoEvaluation
  /\ prog = <<>>
  /\ parsed = <<>>
  /\ context = NewContext
  /\ addr_to_line_map = <<>>
  /\ pc = "parse"
  /\ err = ""
  /\ jmp_optimized = FALSE
  /\ iterations = 0
  /\ hex = NewVisitor
  /\ out = <<>>
  /\ instr = Instruction("NOP", 0, 0, NoExpr)
  /\ mc = <<>>

ParserState ==
  [tokens |-> tokens, token_index |-> token_index, regs_map |-> regs_map,
   prog |-> prog, context |-> context, pending_label |-> pending_label,
   pending_macro_desc |-> pending_macro_desc,
   pending_comment |-> pending_comment, pending_addr |-> pending_addr,
   current_line_number |-> current_line_number,
   ram_pos |-> ram_pos, von_neumann |-> von_neumann, data_map |-> data_map,
   ib |-> InstructionBuilder("NOP"), err |-> ""]

\* parse_program: one iteration of its loop
ParseStatement ==
  /\ pc = "parse"
  /\ TokAt(tokens, token_index).type # "EOF"
  /\ LET done(st) ==
           /\ token_index' = st.token_index
           /\ regs_map' = st.regs_map
           /\ prog' = st.prog
           /\ context' = st.context
           /\ pending_label' = st.pending_label
           /\ pending_macro_desc' = st.pending_macro_desc
           /\ pending_comment' = st.pending_comment
           /\ pending_addr' = st.pending_addr
           /\ current_line_number' = st.current_line_number
           /\ ram_pos' = st.ram_pos
           /\ von_neumann' = st.von_neumann
           /\ data_map' = st.data_map
           /\ err' = st.err
           /\ pc' = IF st.err # "" THEN "parse_failed" ELSE "parse"
     IN done(parse_statement(ParserState))
  /\ stmt' = [at |-> token_index, n0 |-> Len(prog)]
  /\ UNCHANGED <<code, tokens, addr_to_line_map, parsed, jmp_optimized,
                 iterations, hex, out, instr, mc, calls, exprVars>>

\* parse_program returns at the end of the tokens; the Program is linked next
ParseEnd ==
  /\ pc = "parse"
  /\ TokAt(tokens, token_index).type = "EOF"
  /\ parsed' = prog
  /\ pc' = "link"
  /\ UNCHANGED <<prog, context, addr_to_line_map, err, jmp_optimized,
                 iterations, hex, out, instr, mc, parserVars, exprVars>>

NextAsm ==
  \/ ParseStatement
  \/ ParseEnd
  \/ LinkAddPass
  \/ ShortPass
  \/ LoopLinkSet
  \/ LoopJmp
  \/ FinalLinkSet
  \/ EmitHex

SpecAsm == InitAsm /\ [][NextAsm]_vars

(***************************************************************************)
(* The assembler over sources made of the RAM and data directives: up to   *)
(* MaxRamLines different lines of RamLines in any order.                   *)
(***************************************************************************)
MaxRamLines == 3

RamSources ==
  { Join(lines) :
      lines \in { s \in SeqsUpTo(RamLines, MaxRamLines) :
                    \A i, j \in DOMAIN s : s[i] = s[j] => i = j } }

InitRam ==
  /\ code \in RamSources
  /\ LET scanned(r) == r.err = "" /\ tokens = r.tokens
     IN scanned(tokenize(code))
  /\ token_index = 1
  /\ regs_map = <<>>
  /\ pending_label = None
  /\ pending_macro_desc = None
  /\ pending_comment = None
  /\ pending_addr = -1
  /\ current_line_number = 0
  /\ ram_pos = 0
  /\ von_neumann = FALSE
  /\ data_map = <<>>
  /\ stmt = [at |-> 0, n0 |-> 0]
  /\ calls = 0
  /\ NoEvaluation
  /\ prog = <<>>
  /\ parsed = <<>>
  /\ context = NewContext
  /\ addr_to_line_map = <<>>
  /\ pc = "parse"
  /\ err = ""
  /\ jmp_optimized = FALSE
  /\ iterations = 0
  /\ hex = NewVisitor
  /\ out = <<>>
  /\ instr = Instruction("NOP", 0, 0, NoExpr)
  /\ mc = <<>>

SpecRam == InitRam /\ [][NextAsm]_vars

(***************************************************************************)
(* C7: assembling the one-line source MOV R0,R1 gives a program of one     *)
(* instruction, opcode MOV, dest R0, source R1, and the hex image printed  *)
(* is the header v2.0 raw followed by the single word 101: the opcode      *)
(* value 1 in the high byte, (Rd << 4) | Rs = 01 in the low byte.          *)
(***************************************************************************)
OneMov ==
  /\ Len(parsed) = 1
  /\ parsed[1].kind = "instr"
  /\ parsed[1].opcode = "MOV"
  /\ parsed[1].dest_reg = Register["R0"]
  /\ parsed[1].source_reg = Register["R1"]

MovAssembles(word) ==
  code = S_MOV =>
    /\ pc \notin {"parse_failed", "failed", "emit_failed"}
    /\ pc # "parse" => OneMov
    /\ pc = "emitted" => out = <<"v2.0 raw", word>>

C7_MovImage == MovAssembles("101")

\* C7 as stated: the single word of the image is 110
C7_Original == MovAssembles("110")

C7_Witness == code = S_MOV /\ pc = "emitted" /\ Len(out) = 2

(***************************************************************************)
(* C9: add_identifier rejects a name that is bound, ignoring case, to      *)
(* another value and leaves the context as it was; it binds the name       *)
(* otherwise; set_identifier always overwrites; get finds a name in any    *)
(* case.  Consequently a parsed program with two labels equal ignoring     *)
(* case on items at different addresses does not get past the first        *)
(* traversal of optimize_and_link, which raises.                           *)
(***************************************************************************)
SomeNames == {"L1", "l1", "a", "_ADDR_", "_addr_"}
SomeValues == {0, 1, 2}

ContextContract ==
  \A name \in SomeNames, value \in SomeValues :
    LET name_lower == Lower(name)
        bound_otherwise == /\ name_lower \in DOMAIN context.identifier
                           /\ context.identifier[name_lower] # value
        added == add_identifier(context, name, value)
        set == set_identifier(context, name, value)
    IN /\ bound_otherwise => added.err # "" /\ added.context = context
       /\ ~ bound_otherwise =>
            /\ added.err = ""
            /\ \A other \in SomeNames :
                 Lower(other) = name_lower =>
                   ContextGet(added.context, other) = Val(value)
       /\ \A other \in SomeNames :
            Lower(other) = name_lower => ContextGet(set, other) = Val(value)

\* the parsed program has two labels equal ignoring case at different addresses
CaseClash ==
  LET t == traverse("LinkSet", parsed, NewContext, NewVisitor)
  IN /\ t.err = ""
     /\ \E i, j \in 1..Len(parsed) :
          /\ i < j
          /\ parsed[i].label # None
          /\ parsed[j].label # None
          /\ Lower(parsed[i].label) = Lower(parsed[j].label)
          /\ t.place[i] # t.place[j]

C9_CaseClashRejected ==
  /\ ContextContract
  /\ (pc \notin {"parse", "parse_failed"} /\ CaseClash) =>
       \/ pc = "link"
       \/ pc = "failed" /\ err = "defined twice"

(***************************************************************************)
(* C10: a macro statement that parses adds to the program exactly the      *)
(* instructions of the macro table, with the registers and constants of    *)
(* the table.  ENTER N leaves the SUBI out exactly when N is parsed as the *)
(* constant 0.  RET is taken with its operand N.                           *)
(***************************************************************************)
Ins(opcode, dest, source, constant) ==
  [opcode |-> opcode, dest |-> dest, source |-> source, constant |-> constant]

PushOf(reg) == << Ins("SUBIs", SP, -1, Const(1)), Ins("ST", SP, reg, NoExpr) >>
PopOf(reg) == << Ins("LD", reg, SP, NoExpr), Ins("ADDIs", SP, -1, Const(1)) >>

\* reg and n are the macro's register and expression operand
MacroTable(name, reg, n) ==
  CASE name = "inc" -> << Ins("ADDIs", reg, -1, Const(1)) >>
    [] name = "dec" -> << Ins("SUBIs", reg, -1, Const(1)) >>
    [] name = "push" -> PushOf(reg)
    [] name = "pop" -> PopOf(reg)
    [] name = "call" ->
         << Ins("SUBIs", SP, -1, Const(1)),
            Ins("LDI", RA, -1, Identifier("_SKIP2_ADDR_")),
            Ins("ST", SP, RA, NoExpr),
            Ins("JMP", -1, -1, n) >>
    [] name = "_scall" -> PushOf(RA) \o << Ins("RCALL", RA, -1, n) >> \o PopOf(RA)
    [] name = "ret" ->
         << Ins("LD", RA, SP, NoExpr),
            Ins("ADDI", SP, -1, Operate(n, "ADD", Const(1))),
            Ins("RRET", -1, RA, NoExpr) >>
    [] name = "enter" ->
         PushOf(BP) \o << Ins("MOV", BP, SP, NoExpr) >> \o
         (IF n = Const(0) THEN <<>> ELSE << Ins("SUBI", SP, -1, n) >>)
    [] name = "leave" -> << Ins("MOV", SP, BP, NoExpr) >> \o PopOf(BP)
    [] name = "enteri" ->
         << Ins("STD", SP, R0, Const(-1)), Ins("IN", R0, -1, Const(0)),
            Ins("STD", SP, R0, Const(-2)), Ins("SUBIs", SP, -1, Const(2)) >>
    [] name = "leavei" ->
         << Ins("ADDIs", SP, -1, Const(2)), Ins("LDD", R0, SP, Const(-2)),
            Ins("OUT", -1, R0, Const(0)), Ins("LDD", R0, SP, Const(-1)) >>

IsTableEntry(i, e) ==
  /\ i.kind = "instr"
  /\ i.opcode = e.opcode
  /\ e.dest # -1 => i.dest_reg = e.dest
  /\ e.source # -1 => i.source_reg = e.source
  /\ i.constant = e.constant

\* the statement parsed last began with a macro name and parsed
MacroParsed ==
  /\ pc \in {"parse", "link"}
  /\ err = ""
  /\ stmt.at > 0
  /\ tokens[stmt.at].type = "WORD"
  /\ tokens[stmt.at].upper \notin DOMAIN Opcode
  /\ tokens[stmt.at].lower \in MACROS

MacroName == tokens[stmt.at].lower
MacroOperand == TokAt(tokens, stmt.at + 1)
MacroRegister ==
  IF MacroName \notin {"inc", "dec", "push", "pop"} THEN -1
  ELSE IF MacroOperand.upper \in DOMAIN Register THEN Register[MacroOperand.upper]
  ELSE regs_map[MacroOperand.value]
MacroExpression ==
  IF MacroName \notin {"call", "_scall", "ret", "enter"} THEN NoExpr
  ELSE parse_expression(tokens, stmt.at + 1).e
MacroAdded == SubSeq(prog, stmt.n0 + 1, Len(prog))

RetAlone ==
  /\ pc \in {"parse", "parse_failed", "link"}
  /\ stmt.at > 0
  /\ tokens[stmt.at].type = "WORD"
  /\ tokens[stmt.at].lower = "ret"
  /\ \/ TokAt(tokens, stmt.at + 1).type = "EOF"
     \/ TokAt(tokens, stmt.at + 1).line > tokens[stmt.at].line

RetTable ==
  << Ins("LD", RA, SP, NoExpr), Ins("ADDIs", SP, -1, Const(1)),
     Ins("RRET", -1, RA, NoExpr) >>

C11_RetAloneExpansion ==
  RetAlone =>
    /\ err = ""
    /\ token_index = stmt.at + 1
    /\ Len(MacroAdded) = 3
    /\ \A k \in 1..3 : IsTableEntry(MacroAdded[k], RetTable[k])

(***************************************************************************)
(* C12: after a macro statement that parses, every instruction the         *)
(* expansion added carries the description of the invocation.              *)
(***************************************************************************)
\* the description a macro statement sets: the macro's name and its operand
MacroDescription ==
  CASE MacroName \in {"inc", "dec", "push", "pop"} ->
         tokens[stmt.at].upper \o " " \o RegName(MacroRegister)
    [] MacroName \in {"call", "_scall", "enter"} ->
         tokens[stmt.at].upper \o " " \o ExprStr(MacroExpression)
    [] MacroName = "ret" ->
         IF MacroOperand.type = "EOF" THEN "RET"
         ELSE "RET " \o ExprStr(MacroExpression)
    [] OTHER -> tokens[stmt.at].upper

C12_Original ==
  MacroParsed =>
    \A k \in 1..Len(MacroAdded) : MacroAdded[k].macro_description = MacroDescription

\* C12 as the code has it: the description is a latch that the first
\* instruction added takes; the instructions after it carry none
C12_FirstInstructionDescribed ==
  MacroParsed =>
    /\ Len(MacroAdded) >= 1
    /\ MacroAdded[1].macro_description = MacroDescription
    /\ \A k \in 2..Len(MacroAdded) : MacroAdded[k].macro_description = None
    /\ pending_macro_desc = None

C12_Witness ==
  /\ MacroParsed
  /\ code = S_PUSH
  /\ Len(MacroAdded) = 2
  /\ MacroAdded[1].macro_description = "PUSH R1"
  /\ MacroAdded[2].macro_description = None

(***************************************************************************)
(* C13: when a traversal visits the item placed at address A, _ADDR_ is A  *)
(* and _NEXT_ADDR_, _SKIP_ADDR_, _SKIP2_ADDR_ are the addresses at which   *)
(* the same traversal places the items 1, 2 and 3 positions later (the     *)
(* address after the last item when fewer items remain), .org included.    *)
(* Stated of the traversal that ends optimize_and_link.                    *)
(***************************************************************************)
\* where traversal t places the item n positions after item k
PlacedAhead(t, k, n) ==
  IF k + n <= Len(t.place) THEN t.place[k + n] ELSE t.addr

AheadAsPlaced(t) ==
  t.err = "" =>
    \A k \in 1..Len(t.place) :
      /\ ContextGet(t.ctxs[k], "_ADDR_") = Val(t.place[k])
      /\ ContextGet(t.ctxs[k], "_NEXT_ADDR_") = Val(PlacedAhead(t, k, 1))
      /\ ContextGet(t.ctxs[k], "_SKIP_ADDR_") = Val(PlacedAhead(t, k, 2))
      /\ ContextGet(t.ctxs[k], "_SKIP2_ADDR_") = Val(PlacedAhead(t, k, 3))

C13_AheadAddresses ==
  pc = "final" => AheadAsPlaced(traverse("LinkSet", prog, context, NewVisitor))

(***************************************************************************)
(* The .data statements of the source lines and the values they list, as   *)
(* read off the lines: "AA",0 is 65, 65, 0; "Test",0 is 84, 101, 115,      *)
(* 116, 0.                                                                 *)
(***************************************************************************)
DataValues ==
  ("text" :> <<65, 65, 0>>) @@
  ("t1" :> <<84, 101, 115, 116, 0>>) @@
  ("t2" :> <<84, 101, 115, 116, 0>>) @@
  ("n" :> <<-1, 65536>>)

\* the statement parsed last was a directive of the given name and parsed
DirectiveParsed(name) ==
  /\ pc \in {"parse", "link"}
  /\ err = ""
  /\ stmt.at > 0
  /\ tokens[stmt.at].type = "DOTCMD"
  /\ tokens[stmt.at].lower = name

\* the operand that follows the directive's name
DirectiveIdent == TokAt(tokens, stmt.at + 1).value

\* the address of item k of a program without origins
AddressOf(p, k) == calc_rel_addr(p, 1, k - 1)

HasConstant(p, ops, v) ==
  \E k \in 1..Len(p) :
    /\ p[k].kind = "instr"
    /\ p[k].opcode \in ops
    /\ get_value(p[k].constant, context) = Val(v)

C15_HarvardDataLoaded ==
  (pc = "linked" /\ ~ von_neumann /\ DOMAIN data_map # {}) =>
    /\ Len(prog) > Len(parsed)
    /\ \A v \in DOMAIN data_map :
         /\ HasConstant(prog, {"LDI", "LDIs"}, v)
         /\ \A i \in 1..Len(data_map[v]) :
              HasConstant(prog, {"STS", "STSs"}, data_map[v][i])

(***************************************************************************)
(* C16: in Harvard mode every identifier of a .word, .long, .words or      *)
(* .data directive is bound to the RAM cursor at its directive: the sum of *)
(* the sizes that the directives before it reserve, from 0.                *)
(***************************************************************************)
\* the words each directive line reserves, as read off the lines
RamSize ==
  ("a" :> 1) @@ ("b" :> 10) @@ ("c" :> 1) @@ ("d" :> 2) @@ ("e" :> 0) @@
  ("text" :> 3) @@ ("t1" :> 5) @@ ("t2" :> 5) @@ ("n" :> 2)

RamDirectives == {".word", ".long", ".words", ".data"}

IsRamDirective(i) ==
  tokens[i].type = "DOTCMD" /\ tokens[i].lower \in RamDirectives

\* the words reserved by the directives that begin before token i
RECURSIVE ReservedBefore(_)
ReservedBefore(i) ==
  IF i <= 1 THEN 0
  ELSE ReservedBefore(i - 1) +
       (IF IsRamDirective(i - 1) THEN RamSize[tokens[i].value] ELSE 0)

C16_RamCursor ==
  (pc \in {"parse", "link"} /\ err = "" /\ ~ von_neumann) =>
    /\ ram_pos = ReservedBefore(token_index)
    /\ \A i \in 1..(token_index - 1) :
         IsRamDirective(i) =>
           /\ tokens[i + 1].lower \in DOMAIN context.identifier
           /\ context.identifier[tokens[i + 1].lower] = ReservedBefore(i)
    /\ (pc = "link" /\ code = Join(<<D_DATA_t1, D_DATA_t2>>)) =>
         context.identifier["t1"] = 0 /\ context.identifier["t2"] = 5

C16_Witness ==
  /\ pc = "link"
  /\ code = Join(<<D_WORD_a, D_WORDS_b, D_WORD_c>>)
  /\ ~ von_neumann
  /\ context.identifier["a"] = 0
  /\ context.identifier["b"] = 1
  /\ context.identifier["c"] = 11
  /\ ram_pos = 12

(***************************************************************************)
(* C17: RAM reservations and Von-Neumann mode exclude each other: a .dorg  *)
(* after a .word, .long, .words or .data is rejected, a .word, .long or    *)
(* .words after an accepted .dorg is rejected, and no Program is in        *)
(* Von-Neumann mode while an identifier reserved by .word, .long or .words *)
(* or an entry of the Harvard data map exists.                             *)
(***************************************************************************)
IsReservation(i) ==
  tokens[i].type = "DOTCMD" /\ tokens[i].lower \in {".word", ".long", ".words"}

C17_RamExcludesVonNeumann ==
  /\ DirectiveParsed(".dorg") =>
       \A i \in 1..(stmt.at - 1) : ~ IsRamDirective(i)
  /\ (DirectiveParsed(".word") \/ DirectiveParsed(".long")
      \/ DirectiveParsed(".words")) => ~ von_neumann
  /\ von_neumann =>
       /\ DOMAIN data_map = {}
       /\ \A i \in 1..(Len(tokens) - 1) :
            IsReservation(i) => tokens[i + 1].lower \notin DOMAIN context.identifier

(***************************************************************************)
(* Expression.get_value on its own: an expression of bounded shape over    *)
(* the constants -MaxOperand..MaxOperand and the identifiers a (bound) and *)
(* b (not bound) is evaluated in a Context.                                *)
(***************************************************************************)
MaxOperand == 3

Operations == {"OR", "AND", "XOR", "ADD", "SUB", "MUL", "DIV"}

ExprConstants == { Const(v) : v \in -MaxOperand..MaxOperand }
ExprLeaves == ExprConstants \cup {Identifier("a"), Identifier("b")}

Unary(S) == S \cup { Neg(x) : x \in S } \cup { NotOp(x) : x \in S }
Binary(A, B) == { Operate(x, op, y) : x \in A, op \in Operations, y \in B }

Expressions ==
  Unary(ExprLeaves) \cup
  Unary(Binary(ExprLeaves, ExprLeaves)) \cup
  Binary(Binary(ExprConstants, ExprConstants), {Const(-1), Const(0), Const(2)}) \cup
  Binary({Const(-1), Const(0), Const(2)}, Binary(ExprConstants, ExprConstants))

ExprContexts ==
  { set_identifier(NewContext, "a", v) : v \in {-MaxOperand, MaxOperand} }

InitExpr ==
  /\ expression \in Expressions
  /\ context \in ExprContexts
  /\ result = Val(0)
  /\ pc = "evaluate"
  /\ err = ""
  /\ prog = <<>>
  /\ parsed = <<>>
  /\ addr_to_line_map = <<>>
  /\ jmp_optimized = FALSE
  /\ iterations = 0
  /\ hex = NewVisitor
  /\ out = <<>>
  /\ instr = Instruction("NOP", 0, 0, NoExpr)
  /\ mc = <<>>
  /\ NoParser

\* expression.get_value(context)
Evaluate ==
  /\ pc = "evaluate"
  /\ LET returned(r) == result' = r /\ err' = r.err
     IN returned(get_value(expression, context))
  /\ pc' = "evaluated"
  /\ UNCHANGED <<prog, context, addr_to_line_map, parsed, jmp_optimized,
                 iterations, hex, out, instr, mc, parserVars, expression>>

SpecExpr == InitExpr /\ [][Evaluate]_vars

(***************************************************************************)
(* C18: get_value returns the bitwise or arithmetic result on the          *)
(* operands' integer values, DIV rounding toward negative infinity; a DIV  *)
(* by a divisor that evaluates to 0 raises, and an identifier that is not  *)
(* bound raises 'not found'.                                               *)
(* The meaning of the operations is stated on integers: the bitwise ones   *)
(* bit by bit on the two's complement of the operands in 16 bits, the      *)
(* quotient q of a by b by a = q*b + r with r between 0 and b.             *)
(***************************************************************************)
Bit(x, i) == ((x % 65536) \div Pow2(i)) % 2

RECURSIVE BitsFrom(_, _, _, _)
BitsFrom(i, a, b, F) ==
  IF i > 15 THEN 0
  ELSE F[Bit(a, i)][Bit(b, i)] * Pow2(i) + BitsFrom(i + 1, a, b, F)

\* the integer whose 16-bit two's complement has the bits F of a's and b's
Bitwise(a, b, F) ==
  LET u == BitsFrom(0, a, b, F)
  IN IF u >= 32768 THEN u - 65536 ELSE u

Quotient(a, b) ==
  LET m == IF a < 0 THEN -a ELSE a
  IN CHOOSE q \in (-m - 1)..(m + 1) :
       \/ b > 0 /\ 0 <= a - q * b /\ a - q * b < b
       \/ b < 0 /\ b < a - q * b /\ a - q * b <= 0

RECURSIVE Meaning(_, _)
Meaning(e, c) ==
  CASE e.k = "const" -> Val(e.v)
    [] e.k = "id" ->
         IF e.name \in DOMAIN c.identifier THEN Val(c.identifier[e.name])
         ELSE Raise("not found")
    [] e.k = "neg" ->
         IF Meaning(e.a, c).err # "" THEN Meaning(e.a, c)
         ELSE Val(0 - Meaning(e.a, c).v)
    [] e.k = "not" ->
         IF Meaning(e.a, c).err # "" THEN Meaning(e.a, c)
         ELSE Val(Bitwise(Meaning(e.a, c).v, 0, [x \in {0, 1} |-> [y \in {0, 1} |-> 1 - x]]))
    [] e.k = "op" ->
         LET a == Meaning(e.a, c)
             b == Meaning(e.b, c)
         IN IF a.err # "" THEN a
            ELSE IF b.err # "" THEN b
            ELSE CASE e.op = "OR" ->
                        Val(Bitwise(a.v, b.v, [x \in {0, 1} |-> [y \in {0, 1} |->
                                                 IF x + y > 0 THEN 1 ELSE 0]]))
                   [] e.op = "AND" ->
                        Val(Bitwise(a.v, b.v, [x \in {0, 1} |-> [y \in {0, 1} |-> x * y]]))
                   [] e.op = "XOR" ->
                        Val(Bitwise(a.v, b.v, [x \in {0, 1} |-> [y \in {0, 1} |->
                                                 (x + y) % 2]]))
                   [] e.op = "ADD" -> Val(a.v + b.v)
                   [] e.op = "SUB" -> Val(a.v - b.v)
                   [] e.op = "MUL" -> Val(a.v * b.v)
                   [] e.op = "DIV" ->
                        IF b.v = 0 THEN Raise("Division by zero")
                        ELSE Val(Quotient(a.v, b.v))

C18_GetValue ==
  pc = "evaluated" => result = Meaning(expression, context)

C18_Witness ==
  /\ pc = "evaluated"
  /\ expression = Operate(Const(-3), "DIV", Const(2))
  /\ result = Val(-2)

(***************************************************************************)
(* The plausibility checks of the opcode table: the drivers of the main    *)
(* data bus and the nibbles of the instruction word that an immediate and  *)
(* a register argument would share.                                        *)
(***************************************************************************)
Driven(b) == IF b THEN 1 ELSE 0

\* A count that takes the two write strobes for drivers as well.
to_bus_count_with_writes(op) ==
  Driven(Opcode[op].src_to_bus) + Driven(Opcode[op].alu_to_bus) + Driven(Opcode[op].rr)
    + Driven(Opcode[op].rio) + Driven(Opcode[op].store_pc)
    + Driven(Opcode[op].wr) + Driven(Opcode[op].wio)

to_bus_count(op) ==
  Driven(Opcode[op].src_to_bus) + Driven(Opcode[op].alu_to_bus) + Driven(Opcode[op].rr)
    + Driven(Opcode[op].rio) + Driven(Opcode[op].store_pc)

\* C19: every opcode of the table enables at most one of the five drivers
\* of the main data bus (source-to-bus, ALU-to-bus, read-RAM, read-IO,
\* store-PC); the opcode is the one of the instruction being encoded, which
\* ranges over the whole table.
C19_OneBusDriver ==
  to_bus_count(instr.opcode) <= 1

\* ST puts the source register on the bus, and nothing else, while it
\* writes the RAM.
C19_Witness ==
  /\ pc = "encoded"
  /\ instr.opcode = "ST"
  /\ Opcode[instr.opcode].wr
  /\ to_bus_count(instr.opcode) = 1

\* The selectors with the two register nibbles exchanged.
const_access_exchanged(args) ==
  IF args.has_source /\ args.has_dest
    THEN { "instrDest", "instrSource", "instrSourceAndDest" }
  ELSE IF args.has_source THEN { "instrDest", "instrSourceAndDest" }
  ELSE IF args.has_dest THEN { "instrSource", "instrSourceAndDest" }
  ELSE { }

\* The ALU-B selectors that take the immediate from a nibble which a
\* register argument of the shape needs.
const_access(args) ==
  IF args.has_source /\ args.has_dest
    THEN { "instrDest", "instrSource", "instrSourceAndDest" }
  ELSE IF args.has_source THEN { "instrSource", "instrSourceAndDest" }
  ELSE IF args.has_dest THEN { "instrDest", "instrSourceAndDest" }
  ELSE { }

\* C20: no opcode of the table selects as ALU-B source a nibble of the
\* instruction word that a register argument of its shape needs: none of
\* the three instr selectors with both Rd and Rs, neither instrSource nor
\* instrSourceAndDest with Rs alone, neither instrDest nor
\* instrSourceAndDest with Rd alone.
C20_NoNibbleConflict ==
  Opcode[instr.opcode].alu_b_sel
    \notin const_access(MNEMONIC_ARG_LOOKUP[Opcode[instr.opcode].args])

\* LDIs uses Rd and takes its immediate from the source nibble; the
\* encoded word carries both.
C20_Witness ==
  /\ pc = "encoded"
  /\ instr.opcode = "LDIs"
  /\ MNEMONIC_ARG_LOOKUP[Opcode[instr.opcode].args].has_dest
  /\ ~MNEMONIC_ARG_LOOKUP[Opcode[instr.opcode].args].has_source
  /\ Opcode[instr.opcode].alu_b_sel = "instrSource"
  /\ err = ""
  /\ Len(mc) = 1

(***************************************************************************)
(* optimize_and_link runs from its first statement to its return without   *)
(* waiting for anything: a traversal that is due is taken.  This is weak   *)
(* fairness of NextLink, with the states in which NextLink is enabled      *)
(* written out: it is enabled exactly while the run has not ended.         *)
(***************************************************************************)
LinkEnded == pc \in {"failed", "emitted", "emit_failed"}

SpecLinkFair == SpecLink /\ ([]<>LinkEnded \/ []<><<NextLink>>_vars)

\* the long jumps of a program, and those of them that were made short
Jumps(p, op) == { k \in DOMAIN p : p[k].kind = "instr" /\ p[k].opcode = op }
Shortened == Jumps(parsed, "JMP") \cap Jumps(prog, "JMPs")

LoopLeft == pc \in {"failed", "final", "linked", "emitted", "emit_failed"}

\* C21: the jump loop of optimize_and_link terminates.  Every iteration but
\* the one that ends the loop turns at least one JMP into a JMPs, no JMPs
\* ever becomes a JMP again, so a program with N long jumps goes through at
\* most N iterations that change it and one that finds nothing to change;
\* the loop is left for good.
C21_JumpLoopTerminates ==
  /\ [](/\ iterations <= Cardinality(Shortened) + (IF LoopLeft THEN 1 ELSE 0)
        /\ iterations <= Cardinality(Jumps(parsed, "JMP")) + 1)
  /\ [][/\ Len(prog') = Len(prog)
        /\ Jumps(prog, "JMPs") \subseteq Jumps(prog', "JMPs")
        /\ iterations' # iterations /\ pc' = "loop_set"
             => Jumps(prog, "JMPs") # Jumps(prog', "JMPs")]_vars
  /\ <>[]LoopLeft

\* Two long jumps, made short in two successive iterations; the third
\* iteration finds nothing to change.
C21_Witness ==
  /\ pc = "final"
  /\ Cardinality(Jumps(parsed, "JMP")) = 2
  /\ Cardinality(Shortened) = 2
  /\ iterations = 3

(***************************************************************************)
(* The short-form pass run twice (SpecShortTwice): Init draws a program of *)
(* up to MaxTwice items whose constants are plain, relative to a label or  *)
(* relative to the addresses the traversal provides; the actions are the   *)
(* first two traversals of optimize_and_link and one more traversal with   *)
(* OptimizerShort.                                                         *)
(***************************************************************************)
MaxTwice == 2

TwiceItems ==
  { Instruction("LDI", 1, 0, Const(5)),
    Instruction("LDI", 1, 0, Const(16)),
    Instruction("LDI", 0, 0, Operate(Identifier("_ADDR_"), "ADD", Const(14))),
    Instruction("LDI", 0, 0, Operate(Const(17), "SUB", Identifier("_ADDR_"))),
    Instruction("LDI", 0, 0, Operate(Identifier("_SKIP_ADDR_"), "ADD", Const(12))),
    Instruction("LDI", 0, 0, Operate(Identifier("a"), "ADD", Const(14))),
    Instruction("LDI", 0, 0, Operate(Const(17), "SUB", Identifier("a"))),
    Instruction("LDI", 0, 0, Operate(Identifier("_NEXT_ADDR_"), "SUB", Const(2))),
    WithLabel(Instruction("NOP", 0, 0, NoExpr), "a"),
    Instruction("JMP", 0, 0, Identifier("a")) }

InitShortTwice ==
  /\ prog \in SeqsUpTo(TwiceItems, MaxTwice)
  /\ parsed = prog
  /\ context = NewContext
  /\ addr_to_line_map = <<>>
  /\ pc = "link"
  /\ err = ""
  /\ jmp_optimized = FALSE
  /\ iterations = 0
  /\ hex = NewVisitor
  /\ out = <<>>
  /\ instr = Instruction("NOP", 0, 0, NoExpr)
  /\ mc = <<>>
  /\ NoParser
  /\ NoEvaluation

ShortPassAgain ==
  /\ pc = "loop_set"
  /\ Pass("Short", "short_twice")
  /\ UNCHANGED <<parsed, jmp_optimized, iterations, hex, out, instr, mc,
                 parserVars, exprVars>>

NextShortTwice == LinkAddPass \/ ShortPass \/ ShortPassAgain

SpecShortTwice == InitShortTwice /\ [][NextShortTwice]_vars

\* the same programs taken through optimize_and_link and the emission
SpecShortLink == InitShortTwice /\ [][NextLink]_vars

\* C22: the short-form pass is idempotent: a traversal with OptimizerShort
\* over a program on which one has already run changes no opcode.
C22_ShortPassIdempotent ==
  [][pc = "loop_set" /\ pc' = "short_twice"
       => \A k \in DOMAIN prog : prog'[k].opcode = prog[k].opcode]_vars

(***************************************************************************)
(* One item encoded and placed (SpecPlace): Init draws an instruction as   *)
(* in SpecEnc, or a data word, and puts it at an origin in front of a BRK; *)
(* the actions are create_machine_code for the item and a traversal that   *)
(* assigns the addresses.                                                  *)
(***************************************************************************)
PlaceWords == { DataInstruction(v, 0, None) : v \in {0, 65, -1, 65536} }

InitPlace ==
  /\ instr \in EncInstructions \cup PlaceWords
  /\ \E a \in EncAddrs :
       /\ context = set_instr_addr(NewContext, a)
       /\ prog = <<WithOrigin(instr, a), Instruction("BRK", 0, 0, NoExpr)>>
  /\ parsed = prog
  /\ mc = <<>>
  /\ pc = "encode"
  /\ err = ""
  /\ addr_to_line_map = <<>>
  /\ jmp_optimized = FALSE
  /\ iterations = 0
  /\ hex = NewVisitor
  /\ out = <<>>
  /\ NoParser
  /\ NoEvaluation

\* a traversal after the encoding; what the encoding raised is kept
AddressPass ==
  /\ pc = "encoded"
  /\ LET done(t) ==
           /\ prog' = t.prog
           /\ context' = t.context
           /\ addr_to_line_map' = t.map
           /\ err' = IF t.err # "" THEN t.err ELSE err
           /\ pc' = "placed"
     IN done(traverse("LinkSet", prog, context, NewVisitor))
  /\ UNCHANGED <<parsed, jmp_optimized, iterations, hex, out, instr, mc,
                 parserVars, exprVars>>

NextPlace == CreateMachineCode \/ AddressPass

SpecPlace == InitPlace /\ [][NextPlace]_vars

\* C23: an item that encodes without error emits as many words as its size
\* (2 exactly for an instruction whose ALU-B selector is ImReg, 1 for every
\* other instruction and for a data word), and the address pass places the
\* item that follows it that many addresses further.
C23_WordsAreSize ==
  pc = "placed" /\ err = "" =>
    /\ Len(mc) = size(instr)
    /\ Len(mc) = IF instr.kind = "instr" /\ Opcode[instr.opcode].alu_b_sel = "ImReg"
                 THEN 2 ELSE 1
    /\ DOMAIN addr_to_line_map = { prog[1].abs_addr, prog[1].abs_addr + Len(mc) }

\* LDI takes two words: the item placed at 1000 is followed at 1002.
C23_Witness ==
  /\ pc = "placed"
  /\ err = ""
  /\ instr.opcode = "LDI"
  /\ Len(mc) = 2
  /\ DOMAIN addr_to_line_map = {1000, 1002}

(***************************************************************************)
(* Programs with origins (SpecOrg): Init draws a program of up to          *)
(* MaxOrgItems items of one or two words, each with or without an origin   *)
(* up to MaxOrg; the actions are those of optimize_and_link and the        *)
(* emission.                                                               *)
(***************************************************************************)
MaxOrgItems == 3
MaxOrg == 2

OrgItems ==
  { WithOrigin(i, a) :
      i \in { Instruction("NOP", 0, 0, NoExpr),
              Instruction("BRK", 0, 0, NoExpr),
              Instruction("LDI", 0, 0, Const(100)) },
      a \in -1..MaxOrg }

InitOrg ==
  /\ prog \in SeqsUpTo(OrgItems, MaxOrgItems)
  /\ parsed = prog
  /\ context = NewContext
  /\ addr_to_line_map = <<>>
  /\ pc = "link"
  /\ err = ""
  /\ jmp_optimized = FALSE
  /\ iterations = 0
  /\ hex = NewVisitor
  /\ out = <<>>
  /\ instr = Instruction("NOP", 0, 0, NoExpr)
  /\ mc = <<>>
  /\ NoParser
  /\ NoEvaluation

SpecOrg == InitOrg /\ [][NextLink]_vars

\* The pass as the claim describes it: the addresses of the items of p from
\* index idx on, the cursor being at cursor and the item before at before;
\* <<-1>> stands for a rejected origin.
RECURSIVE OriginRule(_, _, _, _)
OriginRule(p, idx, cursor, before) ==
  IF idx > Len(p) THEN <<>>
  ELSE LET O == p[idx].abs_addr
           accepted == O >= cursor \/ (idx > 1 /\ O = before)
           at == IF O >= 0 THEN O ELSE cursor
       IN IF O >= 0 /\ ~accepted THEN <<-1>>
          ELSE <<at>> \o OriginRule(p, idx + 1, at + size(p[idx]), at)

Rejected(places) == places # <<>> /\ places[Len(places)] = -1

\* C24: in an address pass an origin is accepted, and is then the item's
\* address, exactly when it is not below the address cursor or equals the
\* address of the item just before; every other origin ends the pass with
\* '.org cannot jump backward'.  Stated for the first pass of
\* optimize_and_link over the program as it was built.
C24_OriginAccepted ==
  pc \in {"short", "failed"} =>
    LET told(places) ==
          /\ Rejected(places) <=> err = ".org cannot jump backward"
          /\ ~Rejected(places) =>
               places = traverse("LinkAdd", parsed, NewContext, NewVisitor).place
    IN told(OriginRule(parsed, 1, 0, -1))

\* C27: an instruction that the short-form pass made short has a constant
\* in 0..15 under the labels and addresses that optimize_and_link leaves,
\* whatever the constant depends on, and the emission never fails with
\* 'short constant too large'.
C27_ShortConstantStays ==
  /\ pc = "emit_failed" => err # "short constant too large"
  /\ pc = "linked" =>
       \A k \in DOMAIN prog :
         (/\ parsed[k].opcode \in DOMAIN short_constant_map
          /\ prog[k].opcode = short_constant_map[parsed[k].opcode])
           => LET r == get_value(prog[k].constant, Following.ctxs[k])
              IN r.err = "" /\ InRange(r.v, 0, 15)

\* C28: in a program that links and emits without error the address ranges
\* [address, address + size) of distinct items are pairwise disjoint, and
\* no word of the image is written by more than one item.
C28_NoOverlap ==
  pc = "emitted" =>
    LET apart(place) ==
          \A j, k \in DOMAIN prog :
            j < k => \/ place[j] + size(prog[j]) <= place[k]
                     \/ place[k] + size(prog[k]) <= place[j]
    IN /\ apart(Following.place)
       /\ Cardinality(DOMAIN hex.output_buffer) = calc_rel_addr(prog, 1, Len(prog))

(***************************************************************************)
(* A Program driven directly (SpecProgram): up to MaxCalls calls of its    *)
(* methods that set the latches, reserve RAM and emit items, in any order. *)
(* err is what the last call raised; the Program stays as the call left it *)
(* and takes further calls.                                                *)
(***************************************************************************)
MaxCalls == 5

InitProgram ==
  /\ prog = <<>>
  /\ parsed = <<>>
  /\ context = NewContext
  /\ addr_to_line_map = <<>>
  /\ pc = "build"
  /\ err = ""
  /\ jmp_optimized = FALSE
  /\ iterations = 0
  /\ hex = NewVisitor
  /\ out = <<>>
  /\ instr = Instruction("NOP", 0, 0, NoExpr)
  /\ mc = <<>>
  /\ NoParser
  /\ NoEvaluation

Called(st) ==
  /\ prog' = st.prog
  /\ context' = st.context
  /\ pending_label' = st.pending_label
  /\ pending_macro_desc' = st.pending_macro_desc
  /\ pending_comment' = st.pending_comment
  /\ pending_addr' = st.pending_addr
  /\ current_line_number' = st.current_line_number
  /\ ram_pos' = st.ram_pos
  /\ von_neumann' = st.von_neumann
  /\ data_map' = st.data_map
  /\ err' = st.err
  /\ calls' = calls + 1
  /\ UNCHANGED <<code, tokens, token_index, regs_map, stmt, addr_to_line_map,
                 parsed, pc, jmp_optimized, iterations, hex, out, instr, mc,
                 exprVars>>

MayCall == pc = "build" /\ calls < MaxCalls

SetPendingLabel ==
  /\ MayCall
  /\ \E label \in {"a", "b"} : Called(set_pending_label(ParserState, label))

SetPendingMacroDescription ==
  /\ MayCall
  /\ \E description \in {"d", "e"} :
       Called(set_pending_macro_description(ParserState, description))

AddPendingComment ==
  /\ MayCall
  /\ \E comment \in {"c", ""} : Called(add_pending_comment(ParserState, comment))

AddPendingOrigin ==
  /\ MayCall
  /\ \E addr \in {0, 4} : Called(add_pending_origin(ParserState, addr))

SetLineNumber ==
  /\ MayCall
  /\ Called(set_line_number(ParserState, 7))

Add ==
  /\ MayCall
  /\ Called(add(ParserState, Instruction("NOP", 0, 0, NoExpr)))

AddDataInstruction ==
  /\ MayCall
  /\ Called(add_data_instruction(ParserState, 65))

AddRam ==
  /\ MayCall
  /\ \E ident \in {"a", "c"} : Called(add_ram(ParserState, ident, 1))

SetRamStart ==
  /\ MayCall
  /\ Called(set_ram_start(ParserState, 32768))

NextProgram ==
  \/ SetPendingLabel
  \/ SetPendingMacroDescription
  \/ AddPendingComment
  \/ AddPendingOrigin
  \/ SetLineNumber
  \/ Add
  \/ AddDataInstruction
  \/ AddRam
  \/ SetRamStart

SpecProgram == InitProgram /\ [][NextProgram]_vars

\* a step that emits an item, and the item it emits
Emits == Len(prog') = Len(prog) + 1
Emitted == prog'[Len(prog')]

Cleared ==
  /\ pending_label' = None
  /\ pending_macro_desc' = None
  /\ pending_addr' = -1

\* a step of add_ram that got as far as binding a name to the RAM cursor:
\* it moved the cursor, or it failed on a name defined before
Reserves ==
  \/ ram_pos' # ram_pos /\ von_neumann' = von_neumann
  \/ err' = "defined twice"

C26_SlotsAndComments ==
  [][/\ SetPendingLabel /\ pending_label # None =>
          /\ err' = "Two labels for the same command"
          /\ pending_label' = pending_label
     /\ SetPendingMacroDescription /\ pending_macro_desc # None =>
          /\ err' = "Two descriptions for the same command"
          /\ pending_macro_desc' = pending_macro_desc
     /\ AddPendingComment =>
          /\ err' = ""
          /\ pending_comment \notin {None, ""} =>
               \E comment \in {"c", ""} :
                 pending_comment' = pending_comment \o "\n" \o comment]_vars

\* A second label was refused and the first is still pending; two comments
\* were joined by a newline.
C26_Witness ==
  /\ err = "Two labels for the same command"
  /\ pending_label = "a"
  /\ pending_comment = "c\nc"
  /\ prog = <<>>

(***************************************************************************)
(* The assembler over sources of two lines where the second line begins    *)
(* with a mnemonic that the expression parser also knows as an operator.   *)
(***************************************************************************)
FirstLines == { O_LDI_1, O_ADDI, S_ENTER_3, S_MOV, F_NOP }

OperatorLines == { O_and, O_AND, O_And, O_or, O_OR, O_Or }

LineSources ==
  { Join(<<f, s>>) : f \in FirstLines, s \in OperatorLines }

InitLines ==
  /\ code \in LineSources
  /\ LET scanned(r) == r.err = "" /\ tokens = r.tokens
     IN scanned(tokenize(code))
  /\ token_index = 1
  /\ regs_map = <<>>
  /\ pending_label = None
  /\ pending_macro_desc = None
  /\ pending_comment = None
  /\ pending_addr = -1
  /\ current_line_number = 0
  /\ ram_pos = 0
  /\ von_neumann = FALSE
  /\ data_map = <<>>
  /\ stmt = [at |-> 0, n0 |-> 0]
  /\ calls = 0
  /\ NoEvaluation
  /\ prog = <<>>
  /\ parsed = <<>>
  /\ context = NewContext
  /\ addr_to_line_map = <<>>
  /\ pc = "parse"
  /\ err = ""
  /\ jmp_optimized = FALSE
  /\ iterations = 0
  /\ hex = NewVisitor
  /\ out = <<>>
  /\ instr = Instruction("NOP", 0, 0, NoExpr)
  /\ mc = <<>>

SpecLines == InitLines /\ [][NextAsm]_vars

\* C29: parsing one statement takes only tokens of the statement's own line
\* and succeeds, so a line that begins with and/or, in any letter case, is
\* parsed as an AND/OR instruction of its own.
C29_OwnLineOnly ==
  [][ParseStatement =>
       /\ err' = ""
       /\ \A k \in token_index .. token_index' - 1 :
            tokens[k].line = tokens[token_index].line]_vars

\* C30: every item a statement appends has the line of the statement as its
\* line_number, a positive number, and the address-to-line map of a
\* traversal holds a positive line at the address of every item.
C30_LinesRecorded ==
  /\ pc = "parse" /\ stmt.at > 0 =>
       \A k \in stmt.n0 + 1 .. Len(prog) :
         /\ prog[k].line_number = tokens[stmt.at].line
         /\ prog[k].line_number > 0
  /\ pc \in {"linked", "emitted"} =>
       \A k \in DOMAIN prog :
         /\ prog[k].abs_addr \in DOMAIN addr_to_line_map
         /\ addr_to_line_map[prog[k].abs_addr] > 0
====
